---- MODULE Spec2Model ----
(***************************************************************************)
(* A model of the expression-attribute interner (ExpressionAttributes),    *)
(* of the Model codec passes (Model.toTable / toTableUpdate / toModel,     *)
(* Model.splitTableData) and of the request builders of Table that use     *)
(* them.                                                                   *)
(*                                                                         *)
(* Strings are sequences of one-character strings, so that split, indexOf, *)
(* substring, endsWith and the template literals `#n${k}` / `:v${k}` are   *)
(* computed character by character as the code computes them.  A JS object *)
(* used as a map is a sequence of [key, val] entries in insertion order    *)
(* (the order of `for ... in` and of Object.keys for non-numeric keys).    *)
(***************************************************************************)
EXTENDS Integers, Sequences, FiniteSets

VARIABLES
  isReservedName,   \* ExpressionAttributes.isReservedName, as the set of names it holds for
  isValidName,      \* ExpressionAttributes.isValidName, as the set of names it holds for
  treatNameAsPath,  \* ExpressionAttributes.treatNameAsPath
  ea,               \* the interner: [names, nextName, values, nextValue]
  fresh,            \* a second interner, constructed anew at each reset() of ea
  last,             \* the last call: operation, argument, ea before it, both results
  nameLog,          \* the addName calls on ea since construction or reset(): {[name, alias]}
  firstSeen,        \* the raw names passed to addName since then, in order of first request
  valueLog,         \* the aliases addValue returned since then, in call order
  dirtyReset,       \* some reset() so far cleared a non-empty names or values map
  steps,            \* number of calls made so far
  schema,           \* Model.schema: field name -> field, in declaration order
  pass,             \* the toTable / toTableUpdate / toModel pass of the Model
  call,             \* the Model method called: operation, argument, status, result
  client,           \* the store client: the requests handed to it, its answers
  passes,           \* the codec passes in flight at the same time, by caller
  frames,           \* per such pass: the object its tableData / out refers to, its hooks' outcomes
  heap,             \* the objects those passes allocated, by reference
  request,          \* the last request a Table builder built, and the interner before it
  codec,            \* a record written through the fields of the schema and read back
  topology          \* the Tables constructed and the Index objects: their fields

eaVars == <<isReservedName, isValidName, treatNameAsPath, ea, fresh, last,
            nameLog, firstSeen, valueLog, dirtyReset, steps>>

-----------------------------------------------------------------------------
modelVars == <<schema, pass, call, client>>

passVars == <<passes, frames, heap>>

restVars == <<passVars, request, codec, topology>>

vars == <<eaVars, modelVars, restVars>>

-----------------------------------------------------------------------------
(* Bounds and inputs *)

MaxSteps == 3

\* The number of requests built on one Table.
MaxRequests == 2

\* The paths handed to addPath: plain names, dotted paths, list indexes, and
\* the shapes addPath does not single out (a bracket inside a segment, a
\* closing bracket without an opening one, an empty segment, a name that
\* looks like a sequence alias).
PathInputs ==
  { <<"a">>,
    <<"b">>,
    <<"n", "0">>,
    <<"a", ".", "b">>,
    <<"b", ".", "a", ".", "b">>,
    <<"a", "[", "0", "]">>,
    <<"a", "[", "0", "]", "[", "1", "]", ".", "b">>,
    <<"a", "[", "0", "]", "b">>,
    <<"a", "]">>,
    <<"a", ".", ".", "b">> }

ValueInputs == { <<"x">>, <<"y">> }

ReservedChoices == { {}, {<<"a">>}, {<<"n", "0">>} }
ValidChoices    == { {}, {<<"a">>, <<"b">>} }

-----------------------------------------------------------------------------
(* String primitives *)

Digit(d) ==
  CASE d = 0 -> "0" [] d = 1 -> "1" [] d = 2 -> "2" [] d = 3 -> "3" [] d = 4 -> "4"
    [] d = 5 -> "5" [] d = 6 -> "6" [] d = 7 -> "7" [] d = 8 -> "8" [] d = 9 -> "9"

\* Number -> decimal string, as a template literal `${n}` formats a
\* non-negative integer.
RECURSIVE numberToString(_)
numberToString(n) ==
  IF n < 10 THEN <<Digit(n)>> ELSE numberToString(n \div 10) \o <<Digit(n % 10)>>

Min(a, b) == IF a < b THEN a ELSE b
Max(a, b) == IF a > b THEN a ELSE b

\* String.prototype.indexOf(c): 0-based index of the first c, -1 if none.
indexOf(s, c) ==
  IF \E i \in 1..Len(s) : s[i] = c
  THEN (CHOOSE i \in 1..Len(s) : s[i] = c /\ \A j \in 1..(i - 1) : s[j] # c) - 1
  ELSE -1

\* String.prototype.substring(start, end): both clamped to [0, length],
\* swapped when start > end.
substring(s, start, end) ==
  LET a  == Max(0, Min(start, Len(s)))
      b  == Max(0, Min(end, Len(s)))
      lo == Min(a, b)
      hi == Max(a, b)
  IN  SubSeq(s, lo + 1, hi)

\* String.prototype.substring(start)
substringFrom(s, start) == substring(s, start, Len(s))

\* String.prototype.endsWith(c)
endsWith(s, c) == Len(s) > 0 /\ s[Len(s)] = c

\* String.prototype.split(sep) for a one-character separator: "" -> [""].
RECURSIVE split(_, _)
split(s, sep) ==
  LET i == indexOf(s, sep)
  IN  IF i = -1 THEN <<s>>
      ELSE <<substring(s, 0, i)>> \o split(substringFrom(s, i + 1), sep)

\* Array.prototype.join(sep)
RECURSIVE join(_, _)
join(list, sep) ==
  IF Len(list) = 0 THEN <<>>
  ELSE IF Len(list) = 1 THEN list[1]
  ELSE list[1] \o <<sep>> \o join(Tail(list), sep)

-----------------------------------------------------------------------------
(* JS objects used as maps *)

HasKey(map, k) == \E i \in 1..Len(map) : map[i].key = k

Get(map, k) == map[CHOOSE i \in 1..Len(map) : map[i].key = k].val

\* map[k] = v: an existing key keeps its position, a new one is appended.
Put(map, k, v) ==
  IF HasKey(map, k)
  THEN [i \in 1..Len(map) |-> IF map[i].key = k THEN [key |-> k, val |-> v] ELSE map[i]]
  ELSE Append(map, [key |-> k, val |-> v])

Keys(map) == {map[i].key : i \in 1..Len(map)}
Vals(map) == {map[i].val : i \in 1..Len(map)}

-----------------------------------------------------------------------------
(* ExpressionAttributes *)

\* The fields a constructor initialises (names, nextName, values, nextValue).
NewExpressionAttributes ==
  [names |-> <<>>, nextName |-> 0, values |-> <<>>, nextValue |-> 0]

\* The loop of addName: the first key, in insertion order, whose value is name; 0 if none.
findName(names, name) ==
  IF \E i \in 1..Len(names) : names[i].val = name
  THEN CHOOSE i \in 1..Len(names) :
         names[i].val = name /\ \A j \in 1..(i - 1) : names[j].val # name
  ELSE 0

\* addName without the search for an alias already mapped to name.
addName_noSearch(e, name) ==
  IF name \in isReservedName
  THEN LET attName == <<"#">> \o name
       IN  [ea |-> [e EXCEPT !.names = Put(@, attName, name)], ret |-> attName]
  ELSE IF name \notin isValidName
  THEN LET attName == <<"#", "n">> \o numberToString(e.nextName)
       IN  [ea  |-> [e EXCEPT !.names = Put(@, attName, name), !.nextName = @ + 1],
            ret |-> attName]
  ELSE [ea |-> e, ret |-> name]

\* addName numbering with ++nextName instead of nextName++.
addName_preIncrement(e, name) ==
  IF name \in isReservedName
  THEN LET attName == <<"#">> \o name
       IN  [ea |-> [e EXCEPT !.names = Put(@, attName, name)], ret |-> attName]
  ELSE IF name \notin isValidName
  THEN LET i == findName(e.names, name)
       IN  IF i # 0
           THEN [ea |-> e, ret |-> e.names[i].key]
           ELSE LET attName == <<"#", "n">> \o numberToString(e.nextName + 1)
                IN  [ea  |-> [e EXCEPT !.names = Put(@, attName, name),
                                       !.nextName = @ + 1],
                     ret |-> attName]
  ELSE [ea |-> e, ret |-> name]

\* addName giving a reserved name a sequence alias, like any other name.
addName_reservedSeq(e, name) ==
  IF name \in isReservedName \/ name \notin isValidName
  THEN LET i == findName(e.names, name)
       IN  IF i # 0
           THEN [ea |-> e, ret |-> e.names[i].key]
           ELSE LET attName == <<"#", "n">> \o numberToString(e.nextName)
                IN  [ea  |-> [e EXCEPT !.names = Put(@, attName, name),
                                       !.nextName = @ + 1],
                     ret |-> attName]
  ELSE [ea |-> e, ret |-> name]

\* addName without the isValidName test.
addName_ignoreValid(e, name) ==
  IF name \in isReservedName
  THEN LET attName == <<"#">> \o name
       IN  [ea |-> [e EXCEPT !.names = Put(@, attName, name)], ret |-> attName]
  ELSE LET i == findName(e.names, name)
       IN  IF i # 0
           THEN [ea |-> e, ret |-> e.names[i].key]
           ELSE LET attName == <<"#", "n">> \o numberToString(e.nextName)
                IN  [ea  |-> [e EXCEPT !.names = Put(@, attName, name),
                                       !.nextName = @ + 1],
                     ret |-> attName]

addName(e, name) ==
  IF name \in isReservedName
  THEN LET attName == <<"#">> \o name
       IN  [ea |-> [e EXCEPT !.names = Put(@, attName, name)], ret |-> attName]
  ELSE IF name \notin isValidName
  THEN LET i == findName(e.names, name)
       IN  IF i # 0
           THEN [ea |-> e, ret |-> e.names[i].key]
           ELSE LET attName == <<"#", "n">> \o numberToString(e.nextName)
                IN  [ea  |-> [e EXCEPT !.names = Put(@, attName, name),
                                       !.nextName = @ + 1],
                     ret |-> attName]
  ELSE [ea |-> e, ret |-> name]

\* String.prototype.lastIndexOf(c)
lastIndexOf(s, c) ==
  IF \E i \in 1..Len(s) : s[i] = c
  THEN (CHOOSE i \in 1..Len(s) : s[i] = c /\ \A j \in (i + 1)..Len(s) : s[j] # c) - 1
  ELSE -1

\* addSegment cutting at the last '[' instead of the first.
addSegment_lastBracket(acc, curr) ==
  IF endsWith(curr, "]")
  THEN LET beginBracket == lastIndexOf(curr, "[")
           arg == substring(curr, 0, beginBracket)
           r   == addName(acc.ea, arg)
       IN  [ea    |-> r.ea,
            prev  |-> Append(acc.prev, r.ret \o substringFrom(curr, beginBracket)),
            calls |-> Append(acc.calls, [name |-> arg, alias |-> r.ret])]
  ELSE LET r == addName(acc.ea, curr)
       IN  [ea    |-> r.ea,
            prev  |-> Append(acc.prev, r.ret),
            calls |-> Append(acc.calls, [name |-> curr, alias |-> r.ret])]

\* One step of the reduce of addPath: acc is [ea, prev, calls], where calls
\* records each addName call made (its argument and its answer).
addSegment(acc, curr) ==
  IF endsWith(curr, "]")
  THEN LET beginBracket == indexOf(curr, "[")
           arg == substring(curr, 0, beginBracket)
           r   == addName(acc.ea, arg)
       IN  [ea    |-> r.ea,
            prev  |-> Append(acc.prev, r.ret \o substringFrom(curr, beginBracket)),
            calls |-> Append(acc.calls, [name |-> arg, alias |-> r.ret])]
  ELSE LET r == addName(acc.ea, curr)
       IN  [ea    |-> r.ea,
            prev  |-> Append(acc.prev, r.ret),
            calls |-> Append(acc.calls, [name |-> curr, alias |-> r.ret])]

RECURSIVE reduce(_, _)
reduce(list, acc) ==
  IF Len(list) = 0 THEN acc ELSE reduce(Tail(list), addSegment(acc, Head(list)))

addPath(e, name) ==
  IF treatNameAsPath
  THEN LET r == reduce(split(name, "."), [ea |-> e, prev |-> <<>>, calls |-> <<>>])
       IN  [ea |-> r.ea, ret |-> join(r.prev, "."), calls |-> r.calls]
  ELSE LET r == addName(e, name)
       IN  [ea |-> r.ea, ret |-> r.ret, calls |-> <<[name |-> name, alias |-> r.ret]>>]

\* addValue reusing the alias of an equal value already held.
addValue_dedup(e, value) ==
  IF \E i \in 1..Len(e.values) : e.values[i].val = value
  THEN [ea  |-> e,
        ret |-> e.values[CHOOSE i \in 1..Len(e.values) : e.values[i].val = value].key]
  ELSE LET name == <<":", "v">> \o numberToString(e.nextValue)
       IN  [ea  |-> [e EXCEPT !.values = Put(@, name, value), !.nextValue = @ + 1],
            ret |-> name]

\* addValue numbering with nextValue, without advancing it.
addValue_noAdvance(e, value) ==
  LET name == <<":", "v">> \o numberToString(e.nextValue)
  IN  [ea  |-> [e EXCEPT !.values = Put(@, name, value)], ret |-> name]

addValue(e, value) ==
  LET name == <<":", "v">> \o numberToString(e.nextValue)
  IN  [ea  |-> [e EXCEPT !.values = Put(@, name, value), !.nextValue = @ + 1],
       ret |-> name]

getPaths(e) == e.names
getValues(e) == e.values

\* reset clearing the maps but not the counters.
reset_keepCounters(e) ==
  [e EXCEPT !.names = <<>>, !.values = <<>>]

reset(e) ==
  [e EXCEPT !.names = <<>>, !.nextName = 0, !.values = <<>>, !.nextValue = 0]

\* addParams attaching ExpressionAttributeNames whatever the names map holds.
addParams_alwaysNames(e, input) ==
  LET withNames == Put(input, "ExpressionAttributeNames", e.names)
  IN  IF Len(e.values) > 0
      THEN Put(withNames, "ExpressionAttributeValues", e.values)
      ELSE withNames

\* addParams: input is the request object, a map like names and values.
addParams(e, input) ==
  LET withNames == IF Len(e.names) > 0
                   THEN Put(input, "ExpressionAttributeNames", e.names)
                   ELSE input
  IN  IF Len(e.values) > 0
      THEN Put(withNames, "ExpressionAttributeValues", e.values)
      ELSE withNames

-----------------------------------------------------------------------------
(* The interner under a sequence of calls *)

Range(seq) == {seq[i] : i \in 1..Len(seq)}

\* The names of a call sequence that are not yet in seen, appended in call order.
RECURSIVE noteFirst(_, _)
noteFirst(seen, calls) ==
  IF Len(calls) = 0 THEN seen
  ELSE noteFirst(IF Head(calls).name \in Range(seen) THEN seen
                 ELSE Append(seen, Head(calls).name),
                 Tail(calls))

IdlePass ==
  [status |-> "idle", kind |-> "none", data |-> <<>>, keys |-> <<>>, i |-> 0,
   tableData |-> <<>>, started |-> <<>>, completed |-> <<>>, result |-> <<>>]

\* A method call: params and attributes are the request built and its
\* interner, hooks the outcomes of the field methods of the pass under way,
\* encoded the key and item maps handed to the store, result the model
\* returned (none for undefined), error the failure the call failed with.
IdleCall ==
  [op |-> "none", data |-> <<>>, status |-> "idle", phase |-> "none", params |-> <<>>,
   attributes |-> NewExpressionAttributes, hooks |-> <<>>, encoded |-> <<>>,
   result |-> <<>>, error |-> <<>>]

\* The store client before any request.
NoClient == [invocations |-> <<>>, responses |-> <<>>]

\* The options of a request: attributes is the caller's interner, if the
\* caller supplies one (a list of none or one), conditions the condition
\* resolvers, params the caller's own entries for the request object.
NoOptions ==
  [attributes |-> <<>>, conditions |-> <<>>, writeOptions |-> "Always", params |-> <<>>]

\* No request built yet: op is the builder called, key, item and options
\* its arguments, error whether it failed.
NoRequest ==
  [op |-> "none", given |-> FALSE, pre |-> NewExpressionAttributes,
   attributes |-> NewExpressionAttributes, params |-> <<>>, item |-> <<>>,
   key |-> <<>>, options |-> NoOptions, index |-> 0, error |-> FALSE,
   returned |-> NoOptions]

\* No Table and no Index constructed; log lists the calls of Index.init so
\* far, in order.
NoTopology == [tables |-> <<>>, indexes |-> <<>>, log |-> <<>>]

\* Nothing written or read yet.
NoCodec == [status |-> "idle", record |-> <<>>, table |-> <<>>, model |-> <<>>]

PassIds == {1, 2}

\* No pass in flight, no object allocated.
NoPasses ==
  /\ passes = [p \in PassIds |-> IdlePass]
  /\ frames = [p \in PassIds |-> [ref |-> 0, hooks |-> <<>>]]
  /\ heap = <<>>

InitEA ==
  /\ isReservedName \in ReservedChoices
  /\ isValidName \in ValidChoices
  /\ treatNameAsPath \in BOOLEAN
  /\ ea = NewExpressionAttributes
  /\ fresh = NewExpressionAttributes
  /\ last = [op |-> "new", arg |-> <<>>, pre |-> NewExpressionAttributes, ret |-> <<>>,
             freshRet |-> <<>>, calls |-> <<>>]
  /\ nameLog = {}
  /\ firstSeen = <<>>
  /\ valueLog = <<>>
  /\ dirtyReset = FALSE
  /\ steps = 0
  /\ schema = <<>>
  /\ pass = IdlePass
  /\ call = IdleCall
  /\ client = NoClient
  /\ NoPasses
  /\ request = NoRequest
  /\ codec = NoCodec
  /\ topology = NoTopology

AddPath(path) ==
  /\ steps < MaxSteps
  /\ LET r == addPath(ea, path)
         f == addPath(fresh, path)
     IN  /\ ea' = r.ea
         /\ fresh' = f.ea
         /\ last' = [op |-> "addPath", arg |-> path, pre |-> ea, ret |-> r.ret,
                     freshRet |-> f.ret, calls |-> r.calls]
         /\ nameLog' = nameLog \cup Range(r.calls)
         /\ firstSeen' = noteFirst(firstSeen, r.calls)
  /\ steps' = steps + 1
  /\ UNCHANGED <<isReservedName, isValidName, treatNameAsPath, valueLog, dirtyReset>>
  /\ UNCHANGED <<modelVars, restVars>>

AddValue(value) ==
  /\ steps < MaxSteps
  /\ LET r == addValue(ea, value)
         f == addValue(fresh, value)
     IN  /\ ea' = r.ea
         /\ fresh' = f.ea
         /\ last' = [op |-> "addValue", arg |-> value, pre |-> ea, ret |-> r.ret,
                     freshRet |-> f.ret, calls |-> <<>>]
         /\ valueLog' = Append(valueLog, r.ret)
  /\ steps' = steps + 1
  /\ UNCHANGED <<isReservedName, isValidName, treatNameAsPath, nameLog, firstSeen,
                 dirtyReset>>
  /\ UNCHANGED <<modelVars, restVars>>

\* reset() on ea; the reference interner is constructed anew with the same
\* predicates and path mode.
Reset ==
  /\ steps < MaxSteps
  /\ ea' = reset(ea)
  /\ fresh' = NewExpressionAttributes
  /\ last' = [op |-> "reset", arg |-> <<>>, pre |-> ea, ret |-> <<>>,
              freshRet |-> <<>>, calls |-> <<>>]
  /\ nameLog' = {}
  /\ firstSeen' = <<>>
  /\ valueLog' = <<>>
  /\ dirtyReset' = (dirtyReset \/ Len(ea.names) > 0 \/ Len(ea.values) > 0)
  /\ steps' = steps + 1
  /\ UNCHANGED <<isReservedName, isValidName, treatNameAsPath>>
  /\ UNCHANGED <<modelVars, restVars>>

NextEA ==
  \/ \E path \in PathInputs : AddPath(path)
  \/ \E value \in ValueInputs : AddValue(value)
  \/ Reset

Spec == InitEA /\ [][NextEA]_vars

-----------------------------------------------------------------------------
(* Values, objects and Object.keys *)

\* The JS values undefined and null; every other value is a string.
Undefined == <<"undefined">>
Null == <<"null">>

\* map[k], undefined when map has no property k.
Lookup(map, k) == IF HasKey(map, k) THEN Get(map, k) ELSE Undefined

\* delete map[k]
Delete(map, k) == SelectSeq(map, LAMBDA entry : entry.key # k)

DigitValue(c) ==
  CASE c = "0" -> 0 [] c = "1" -> 1 [] c = "2" -> 2 [] c = "3" -> 3 [] c = "4" -> 4
    [] c = "5" -> 5 [] c = "6" -> 6 [] c = "7" -> 7 [] c = "8" -> 8 [] c = "9" -> 9

\* A property name that is a canonical array index ("0", "7", "10"; not "07").
IsArrayIndex(k) ==
  /\ Len(k) > 0
  /\ \A i \in 1..Len(k) : k[i] \in {"0", "1", "2", "3", "4", "5", "6", "7", "8", "9"}
  /\ (Len(k) = 1 \/ k[1] # "0")

RECURSIVE stringToNumber(_)
stringToNumber(k) ==
  IF Len(k) = 0 THEN 0
  ELSE 10 * stringToNumber(SubSeq(k, 1, Len(k) - 1)) + DigitValue(k[Len(k)])

RECURSIVE ascending(_)
ascending(indexKeys) ==
  IF indexKeys = {} THEN <<>>
  ELSE LET m == CHOOSE k \in indexKeys :
                  \A o \in indexKeys : stringToNumber(k) <= stringToNumber(o)
       IN  <<m>> \o ascending(indexKeys \ {m})

\* Object.keys(map): the array-index names in ascending numeric order, then
\* the other names in insertion order.
objectKeys(map) ==
  LET names == [i \in 1..Len(map) |-> map[i].key]
  IN  ascending({k \in Range(names) : IsArrayIndex(k)})
        \o SelectSeq(names, LAMBDA k : ~IsArrayIndex(k))

\* Array.prototype.join(sep) for a separator of any length.
RECURSIVE joinWith(_, _)
joinWith(list, sep) ==
  IF Len(list) = 0 THEN <<>>
  ELSE IF Len(list) = 1 THEN list[1]
  ELSE list[1] \o sep \o joinWith(Tail(list), sep)

-----------------------------------------------------------------------------
(* Table *)

attrP   == <<"P">>
attrS   == <<"S">>
attrG0S == <<"G", "0", "S">>
attrNm  == <<"n", "m">>
attrRange == <<"r", "a", "n", "g", "e">>
attrZ   == <<"z">>

\* The table of the Model: its name, its keySchema (P is the partition key,
\* S the sort key) and its keyAttributes, which also list the key
\* attributes of the secondary indexes.
table ==
  [name |-> <<"T">>,
   keySchema |-> <<[key |-> attrP, val |-> "HASH"], [key |-> attrS, val |-> "RANGE"]>>,
   keyAttributes |-> <<[key |-> attrP, val |-> "S"], [key |-> attrS, val |-> "S"],
                       [key |-> attrG0S, val |-> "S"]>>]

-----------------------------------------------------------------------------
(* Fields *)

fId   == <<"i", "d">>
fName == <<"n", "a", "m", "e">>
fRange == <<"r", "a", "n", "g", "e">>
fCity == <<"c", "i", "t", "y">>
fNick == <<"n", "i", "c", "k">>
fHide == <<"h", "i", "d", "e">>
fState == <<"s", "t", "a", "t", "e">>
fCreated == <<"c", "r", "e", "a", "t", "e", "d">>
fCountry == <<"c", "o", "u", "n", "t", "r", "y">>
f10   == <<"1", "0">>
f7    == <<"7">>

Field(kind, attrs, default, validated) ==
  [kind |-> kind, attrs |-> attrs, default |-> default, validated |-> validated]

\* A schema of the built-in fields: a split key, a slot of the composite
\* attribute G0S (alone in its attribute, so written as it is), a plain
\* scalar, a hidden field, a scalar with a default and one with a validation
\* hook.
UserSchema ==
  << [key |-> fId,    val |-> Field("split", <<attrP, attrS>>, Undefined, FALSE)],
     [key |-> fCity,  val |-> Field("scalar", <<attrG0S>>, Undefined, FALSE)],
     [key |-> fName,  val |-> Field("scalar", <<attrNm>>, Undefined, FALSE)],
     [key |-> fHide,  val |-> Field("hidden", <<>>, Undefined, FALSE)],
     [key |-> fNick,  val |-> Field("scalar", <<fNick>>, <<"-">>, FALSE)],
     [key |-> fRange, val |-> Field("scalar", <<attrRange>>, Undefined, TRUE)] >>

\* A schema with fields the application implements itself, declared under
\* names that are array indexes.
CustomSchema ==
  << [key |-> f10, val |-> Field("custom", <<>>, Undefined, TRUE)],
     [key |-> fId, val |-> Field("split", <<attrP, attrS>>, Undefined, FALSE)],
     [key |-> f7,  val |-> Field("custom", <<>>, Undefined, TRUE)] >>

\* A schema of built-in fields, one of them declared last under a name that
\* is an array index.
NumberedSchema ==
  << [key |-> fName, val |-> Field("scalar", <<attrNm>>, Undefined, FALSE)],
     [key |-> fId,   val |-> Field("split", <<attrP, attrS>>, Undefined, FALSE)],
     [key |-> f7,    val |-> Field("scalar", <<attrZ>>, Undefined, FALSE)] >>

SchemaChoices == {UserSchema, CustomSchema, NumberedSchema}

\* What a field of the application may write to the attribute map.
CustomWrites ==
  { <<>>,
    <<[key |-> attrS, val |-> Undefined]>>,
    <<[key |-> attrZ, val |-> <<"x">>], [key |-> attrG0S, val |-> <<"g">>]>> }

Ok(writes) == [ok |-> TRUE, writes |-> writes]
Failure == [ok |-> FALSE, writes |-> <<>>]

\* The composite attribute G0S and the model fields of its slots, by slot
\* index: city 0, state 1, country 2.
location == [attr |-> attrG0S, slots |-> <<fCity, fState, fCountry>>]

\* A schema of a split key alone, one of the three slots of a composite.
SplitSchema ==
  << [key |-> fId, val |-> Field("split", <<attrP, attrS>>, Undefined, FALSE)] >>

LocationSchema ==
  << [key |-> fCity,    val |-> Field("composite", <<attrG0S>>, Undefined, FALSE)],
     [key |-> fState,   val |-> Field("composite", <<attrG0S>>, Undefined, FALSE)],
     [key |-> fCountry, val |-> Field("composite", <<attrG0S>>, Undefined, FALSE)] >>

\* The index of the slot of a model field.
slotOf(name) == (CHOOSE i \in 1..Len(location.slots) : location.slots[i] = name) - 1

\* Composite slot, write: a slot the record supplies gathers the values of
\* the slots the record supplies, in slot order, and writes them joined to
\* the shared attribute.
compositeWrites(name, data) ==
  IF Lookup(data, name) = Undefined THEN <<>>
  ELSE LET supplied == SelectSeq(location.slots, LAMBDA n : Lookup(data, n) # Undefined)
       IN  <<[key |-> location.attr,
              val |-> join([i \in 1..Len(supplied) |-> Lookup(data, supplied[i])], ".")]>>

\* Composite slot, read: token i of the shared attribute goes to the slot
\* of index i; a slot beyond the tokens gets nothing.
compositeReads(name, data) ==
  IF Lookup(data, location.attr) = Undefined THEN <<>>
  ELSE LET tokens == split(Lookup(data, location.attr), ".")
       IN  IF slotOf(name) >= Len(tokens) THEN <<>>
           ELSE <<[key |-> name, val |-> tokens[slotOf(name) + 1]]>>

\* Split field, read, of the first attribute only.
splitReads_firstOnly(name, field, data) ==
  IF Lookup(data, field.attrs[1]) = Undefined THEN <<>>
  ELSE <<[key |-> name, val |-> Lookup(data, field.attrs[1])]>>

\* Split field, read: the values of the attributes that are present, in the
\* order of the attribute list, joined by the separator.
splitReads(name, field, data) ==
  LET present == SelectSeq(field.attrs, LAMBDA a : Lookup(data, a) # Undefined)
  IN  IF Len(present) = 0 THEN <<>>
      ELSE <<[key |-> name,
              val |-> join([i \in 1..Len(present) |-> Lookup(data, present[i])], ".")]>>

\* A schema of a date field alone.
DateSchema ==
  << [key |-> fCreated, val |-> Field("date", <<fCreated>>, Undefined, FALSE)] >>

\* new Date(t), a timestamp of t milliseconds since the epoch, and the
\* number n as a table value.
Date(t) == <<"Date", t>>
Num(n) == <<"N", n>>

\* Math.trunc(a / b) for b > 0: the quotient with its fraction cut off.
truncate(a, b) == IF a >= 0 THEN a \div b ELSE -((-a) \div b)

\* Date field, write, with the seconds rounded to the nearest.
dateWrites_round(field, value) ==
  <<[key |-> field.attrs[1], val |-> Num((value[2] + 500) \div 1000)]>>

\* Date field, write: the whole seconds of the timestamp.
dateWrites(field, value) ==
  <<[key |-> field.attrs[1], val |-> Num(truncate(value[2], 1000))]>>

\* Date field, read: the timestamp at the second the attribute holds.
dateReads(name, field, data) ==
  IF Lookup(data, field.attrs[1]) = Undefined THEN <<>>
  ELSE <<[key |-> name, val |-> Date(Lookup(data, field.attrs[1])[2] * 1000)]>>

\* A hidden field that passes its value on under its own name.
hidden_asScalar(name, data) ==
  IF Lookup(data, name) = Undefined THEN <<>>
  ELSE <<[key |-> name, val |-> Lookup(data, name)]>>

\* Hidden field, write and read: nothing, whatever data holds.
hidden(name, data) == <<>>

\* Split field, write, of the first and the last token only.
splitWrites_firstLast(field, value) ==
  LET tokens == split(value, ".")
      n == Len(tokens)
  IN  IF n = 1 THEN <<[key |-> field.attrs[1], val |-> value]>>
      ELSE <<[key |-> field.attrs[1], val |-> tokens[1]],
             [key |-> field.attrs[2], val |-> tokens[n]]>>

\* Split field, write: one token goes to the first attribute; of several
\* tokens all but the last go, joined, to the first attribute and the last
\* to the second.
splitWrites(field, value) ==
  LET tokens == split(value, ".")
      n == Len(tokens)
  IN  IF n = 1 THEN <<[key |-> field.attrs[1], val |-> value]>>
      ELSE <<[key |-> field.attrs[1], val |-> join(SubSeq(tokens, 1, n - 1), ".")],
             [key |-> field.attrs[2], val |-> tokens[n]]>>

\* A scalar field that falls back to its default in every pass.
scalarValue_defaultAlways(kind, field, value) ==
  IF value = Undefined THEN field.default ELSE value

\* The value a scalar field passes on: the value it is given, or, in a
\* whole-record write that gives none, its default (undefined without one).
scalarValue(kind, field, value) ==
  IF kind = "toTable" /\ value = Undefined THEN field.default ELSE value

\* The outcomes of Field.toTable(name, data, tableData, model): the
\* attributes written, or the failure of the validation hook.
fieldToTable(name, field, data) ==
  LET value == Lookup(data, name)
  IN  CASE field.kind = "hidden" -> {Ok(hidden(name, data))}
        [] field.kind = "custom" -> {Ok(w) : w \in CustomWrites} \cup {Failure}
        [] field.kind = "composite" -> {Ok(compositeWrites(name, data))}
        [] field.kind = "date" ->
             IF value = Undefined THEN {Ok(<<>>)} ELSE {Ok(dateWrites(field, value))}
        [] field.kind = "split" ->
             IF value = Undefined THEN {Ok(<<>>)} ELSE {Ok(splitWrites(field, value))}
        [] field.kind = "scalar" ->
             IF value = Undefined
             THEN IF scalarValue("toTable", field, value) = Undefined THEN {Ok(<<>>)}
                  ELSE {Ok(<<[key |-> field.attrs[1],
                              val |-> scalarValue("toTable", field, value)]>>)}
             ELSE {Ok(<<[key |-> field.attrs[1],
                         val |-> scalarValue("toTable", field, value)]>>)}
                    \cup (IF field.validated THEN {Failure} ELSE {})

\* The outcomes of Field.toTableUpdate: as toTable, without the default.
fieldToTableUpdate(name, field, data) ==
  LET value == Lookup(data, name)
  IN  CASE field.kind = "hidden" -> {Ok(hidden(name, data))}
        [] field.kind = "custom" -> {Ok(w) : w \in CustomWrites} \cup {Failure}
        [] field.kind = "composite" -> {Ok(compositeWrites(name, data))}
        [] field.kind = "date" ->
             IF value = Undefined THEN {Ok(<<>>)} ELSE {Ok(dateWrites(field, value))}
        [] field.kind = "split" ->
             IF value = Undefined THEN {Ok(<<>>)} ELSE {Ok(splitWrites(field, value))}
        [] field.kind = "scalar" ->
             IF scalarValue("toTableUpdate", field, value) = Undefined THEN {Ok(<<>>)}
             ELSE {Ok(<<[key |-> field.attrs[1],
                         val |-> scalarValue("toTableUpdate", field, value)]>>)}
                    \cup (IF field.validated /\ value # Undefined THEN {Failure} ELSE {})

\* The outcomes of Field.toModel(name, data, out, model): the model
\* properties set from the table attributes.
fieldToModel(name, field, data) ==
  CASE field.kind = "hidden" -> {Ok(hidden(name, data))}
    [] field.kind = "custom" -> {Ok(<<>>), Failure}
    [] field.kind = "composite" -> {Ok(compositeReads(name, data))}
    [] field.kind = "date" -> {Ok(dateReads(name, field, data))}
    [] field.kind = "split" -> {Ok(splitReads(name, field, data))}
    [] field.kind = "scalar" ->
         IF scalarValue("toModel", field, Lookup(data, field.attrs[1])) = Undefined
         THEN {Ok(<<>>)}
         ELSE {Ok(<<[key |-> name,
                     val |-> scalarValue("toModel", field, Lookup(data, field.attrs[1]))]>>)}

fieldOutcomes(kind, name, field, data) ==
  CASE kind = "toTable" -> fieldToTable(name, field, data)
    [] kind = "toTableUpdate" -> fieldToTableUpdate(name, field, data)
    [] kind = "toModel" -> fieldToModel(name, field, data)

-----------------------------------------------------------------------------
(* Model: the codec passes *)

\* splitTableData with the names of table.keyAttributes for those of table.keySchema.
RECURSIVE splitNames(_, _, _)
splitNames(data, names, acc) ==
  IF Len(names) = 0 THEN acc
  ELSE LET name == Head(names)
       IN  IF Lookup(data, name) = Undefined
           THEN splitNames(data, Tail(names), acc)
           ELSE splitNames(data, Tail(names),
                           [key  |-> Put(acc.key, name, Lookup(data, name)),
                            item |-> Delete(acc.item, name)])

splitTableData_keyAttributes(data) ==
  splitNames(data, objectKeys(table.keyAttributes), [key |-> <<>>, item |-> data])

\* Model.splitTableData: key starts empty and item as a copy of data; each
\* name of the keySchema whose value in data is not undefined moves to key.
splitTableData(data) ==
  splitNames(data, objectKeys(table.keySchema), [key |-> <<>>, item |-> data])

\* The loop over the fields starting at the second key.
passKeys_skipFirst(sch) == Tail(objectKeys(sch))

\* const keys = Object.keys(this.schema)
passKeys(sch) == objectKeys(sch)

\* tableData / out after a field has written to it.
RECURSIVE applyWrites(_, _)
applyWrites(map, writes) ==
  IF Len(writes) = 0 THEN map
  ELSE applyWrites(Put(map, Head(writes).key, Head(writes).val), Tail(writes))

\* What a pass returns: toModel returns out, the write passes split tableData.
passResult(kind, acc) == IF kind = "toModel" THEN acc ELSE splitTableData(acc)

\* A pass that invokes the methods of all its fields before awaiting any.
beginPass_invokeAll(kind, data) ==
  LET keys == passKeys(schema)
  IN  [status |-> "awaiting", kind |-> kind, data |-> data, keys |-> keys, i |-> 1,
       tableData |-> <<>>, started |-> keys, completed |-> <<>>, result |-> <<>>]

\* A pass over the fields in the order the record lists them, then the
\* fields the record leaves out.
beginPass_recordOrder(kind, data) ==
  LET keys == SelectSeq([i \in 1..Len(data) |-> data[i].key], LAMBDA k : HasKey(schema, k))
                \o SelectSeq(passKeys(schema), LAMBDA k : ~HasKey(data, k))
      p == [status |-> "awaiting", kind |-> kind, data |-> data, keys |-> keys, i |-> 1,
            tableData |-> <<>>, started |-> <<>>, completed |-> <<>>, result |-> <<>>]
  IN  IF Len(keys) = 0
      THEN [p EXCEPT !.status = "returned", !.i = 0, !.result = passResult(kind, <<>>)]
      ELSE [p EXCEPT !.started = <<keys[1]>>]

\* A pass from its call to its first await: the method of the first field has
\* been invoked and the pass waits for it (status "awaiting").
beginPass(kind, data) ==
  LET keys == passKeys(schema)
      p == [status |-> "awaiting", kind |-> kind, data |-> data, keys |-> keys, i |-> 1,
            tableData |-> <<>>, started |-> <<>>, completed |-> <<>>, result |-> <<>>]
  IN  IF Len(keys) = 0
      THEN [p EXCEPT !.status = "returned", !.i = 0, !.result = passResult(kind, <<>>)]
      ELSE [p EXCEPT !.started = <<keys[1]>>]

\* A pass that catches the failure of a field method and returns what it
\* has accumulated.
resumePass_swallow(p, outcome) ==
  IF ~outcome.ok
  THEN [p EXCEPT !.status = "returned", !.result = passResult(p.kind, p.tableData)]
  ELSE LET acc  == applyWrites(p.tableData, outcome.writes)
           done == Append(p.completed, p.keys[p.i])
       IN  IF p.i < Len(p.keys)
           THEN [p EXCEPT !.tableData = acc, !.completed = done, !.i = p.i + 1,
                          !.started = Append(p.started, p.keys[p.i + 1])]
           ELSE [p EXCEPT !.tableData = acc, !.completed = done,
                          !.status = "returned", !.result = passResult(p.kind, acc)]

\* A pass from the settling of the awaited field method to the next await:
\* a failure ends the pass; otherwise the next field's method is invoked, or,
\* after the last field, the pass returns.
resumePass(p, outcome) ==
  IF ~outcome.ok
  THEN [p EXCEPT !.status = "failed"]
  ELSE LET acc  == applyWrites(p.tableData, outcome.writes)
           done == Append(p.completed, p.keys[p.i])
       IN  IF p.i < Len(p.keys)
           THEN [p EXCEPT !.tableData = acc, !.completed = done, !.i = p.i + 1,
                          !.started = Append(p.started, p.keys[p.i + 1])]
           ELSE [p EXCEPT !.tableData = acc, !.completed = done,
                          !.status = "returned", !.result = passResult(p.kind, acc)]

-----------------------------------------------------------------------------
(* Update.addParam, Condition.addAndParam and Table.updateParams *)

Str(keyword) ==
  CASE keyword = "SET" -> <<"S", "E", "T", " ">>
    [] keyword = "REMOVE" -> <<"R", "E", "M", "O", "V", "E", " ">>
    [] keyword = "ADD" -> <<"A", "D", "D", " ">>
    [] keyword = "DELETE" -> <<"D", "E", "L", "E", "T", "E", " ">>

\* Update.addToSet(value) and Update.removeFromSet(value): the directives an
\* update map holds in place of a value.
Update_addToSet(value) == <<"$addToSet", value>>

Update_removeFromSet(value) == <<"$removeFromSet", value>>

\* Update.map(nested): the directives and values of the keys of a map.
Update_map(nested) == <<"$map", nested>>

isDirective(value, name) == Len(value) = 2 /\ value[1] = name

\* The clause an entry of the update map goes to.
clauseOf(value) ==
  CASE value = Undefined -> "none"
    [] value = Null -> "REMOVE"
    [] isDirective(value, "$addToSet") -> "ADD"
    [] isDirective(value, "$removeFromSet") -> "DELETE"
    [] isDirective(value, "$map") -> "MAP"
    [] OTHER -> "SET"

RECURSIVE updateEntry(_, _, _)
RECURSIVE updateMap(_, _, _, _)

\* The keys of a map directive, in the order of Object.keys: each is
\* compiled under the path of the map, a dot and the key, before the next.
updateMap(acc, path, nested, keys) ==
  IF Len(keys) = 0 THEN acc
  ELSE CHOOSE result \in
         { updateMap(next, path, nested, Tail(keys)) :
             next \in {updateEntry(acc, path \o <<".">> \o Head(keys),
                                   Lookup(nested, Head(keys)))} } : TRUE

\* One attribute of the update map: null removes the attribute, undefined
\* contributes nothing, addToSet and removeFromSet add to and delete from
\* the set the attribute holds, a map is compiled key by key, any other
\* value is assigned.
updateEntry(acc, attr, value) ==
  IF value = Undefined THEN acc
  ELSE IF clauseOf(value) = "MAP" THEN updateMap(acc, attr, value[2], objectKeys(value[2]))
  ELSE LET p == addPath(acc.ea, attr)
       IN  IF value = Null
           THEN [acc EXCEPT !.ea = p.ea, !.remove = Append(@, p.ret)]
           ELSE IF clauseOf(value) \in {"ADD", "DELETE"}
           THEN LET v == addValue(p.ea, value[2])
                IN  IF clauseOf(value) = "ADD"
                    THEN [acc EXCEPT !.ea = v.ea, !.add = Append(@, p.ret \o <<" ">> \o v.ret)]
                    ELSE [acc EXCEPT !.ea = v.ea, !.del = Append(@, p.ret \o <<" ">> \o v.ret)]
           ELSE LET v == addValue(p.ea, value)
                IN  [acc EXCEPT !.ea = v.ea,
                                !.set = Append(@, p.ret \o <<" ", "=", " ">> \o v.ret)]

\* (A value bound by a set constructor is computed once, where a LET
\* definition is computed at each of its uses.)
RECURSIVE updateEntries(_, _, _)
updateEntries(acc, item, attrs) ==
  IF Len(attrs) = 0 THEN acc
  ELSE CHOOSE result \in
         { updateEntries(next, item, Tail(attrs)) :
             next \in {updateEntry(acc, Head(attrs), Lookup(item, Head(attrs)))} } : TRUE

\* A clause of the update expression: its keyword and its entries, joined
\* by commas; nothing when it has no entry.
clause(keyword, entries) ==
  IF Len(entries) > 0 THEN <<Str(keyword) \o joinWith(entries, <<",", " ">>)>> ELSE <<>>

updateExpression_addFirst(r) ==
  joinWith(clause("ADD", r.add) \o clause("SET", r.set)
             \o clause("REMOVE", r.remove) \o clause("DELETE", r.del),
           <<" ">>)

\* The update expression of the compiled clauses: the non-empty clauses in
\* the order SET, REMOVE, ADD, DELETE, each with its keyword, separated by a
\* space.
updateExpression(r) ==
  joinWith(clause("SET", r.set) \o clause("REMOVE", r.remove)
             \o clause("ADD", r.add) \o clause("DELETE", r.del),
           <<" ">>)

\* Update.addParam(item, attributes, params): compiles the update map into
\* the SET, REMOVE, ADD and DELETE clauses; UpdateExpression is set only when a clause
\* has an entry.
Update_addParam(item, attributes, params) ==
  CHOOSE result \in
    { [ea |-> r.ea,
       params |-> IF Len(r.set) + Len(r.remove) + Len(r.add) + Len(r.del) > 0
                  THEN Put(params, "UpdateExpression", updateExpression(r))
                  ELSE params] :
        r \in {updateEntries([ea |-> attributes, set |-> <<>>, remove |-> <<>>,
                              add |-> <<>>, del |-> <<>>],
                             item, objectKeys(item))} } : TRUE

\* Condition.addAndParam(conditions, attributes, params) without conditions.
Condition_addAndParam(conditions, attributes, params) ==
  [ea |-> attributes, params |-> params]

\* Table.updateParams(key, item) with no options: the params and, for
\* reference, the interner they were compiled with.
updateParams(key, item) ==
  CHOOSE result \in
    { [attributes |-> c.ea, params |-> addParams(c.ea, c.params)] :
        c \in { Condition_addAndParam(<<>>, u.ea, u.params) :
                  u \in { Update_addParam(
                            item, NewExpressionAttributes,
                            <<[key |-> "TableName", val |-> table.name],
                              [key |-> "Key", val |-> key]>>) } } } : TRUE

-----------------------------------------------------------------------------
(* Table: the request builders and their options *)

\* The interner of the last request, for a caller that gives none.
attributesOf_kept(options) ==
  IF Len(options.attributes) = 0 THEN request.attributes ELSE options.attributes[1]

\* options.attributes || new ExpressionAttributes()
attributesOf(options) ==
  IF Len(options.attributes) = 0 THEN NewExpressionAttributes ELSE options.attributes[1]

\* A condition resolver: a function of one path, or a comparison of a path
\* with a value.
exists(path) == [fn |-> "attribute_exists", path |-> path, value |-> <<>>]
notExists(path) == [fn |-> "attribute_not_exists", path |-> path, value |-> <<>>]
eq(path, value) == [fn |-> "=", path |-> path, value |-> <<value>>]

fnText(fn) ==
  CASE fn = "attribute_exists" -> <<"a", "t", "t", "r", "i", "b", "u", "t", "e", "_", "e", "x", "i", "s", "t", "s">>
    [] fn = "attribute_not_exists" ->
         <<"a", "t", "t", "r", "i", "b", "u", "t", "e", "_", "n", "o", "t", "_", "e", "x", "i", "s", "t", "s">>

\* The resolver applied to the interner: the condition text, with the path
\* and the value interned.
resolve(e, c) ==
  CHOOSE result \in
    { IF c.fn = "="
      THEN CHOOSE r \in { [ea |-> v.ea, text |-> p.ret \o <<" ", "=", " ">> \o v.ret] :
                            v \in {addValue(p.ea, c.value[1])} } : TRUE
      ELSE [ea |-> p.ea, text |-> fnText(c.fn) \o <<"(">> \o p.ret \o <<")">>] :
        p \in {addPath(e, c.path)} } : TRUE

RECURSIVE resolveAll(_, _, _)
resolveAll(e, conditions, texts) ==
  IF Len(conditions) = 0 THEN [ea |-> e, texts |-> texts]
  ELSE CHOOSE result \in
         { resolveAll(r.ea, Tail(conditions), Append(texts, r.text)) :
             r \in {resolve(e, Head(conditions))} } : TRUE

\* Condition.addAndParam / addAndFilterParam: the conditions, resolved in
\* order and joined by AND, are set as params[name]; nothing is set for no
\* conditions.
addAndExpression(conditions, attributes, params, name) ==
  IF Len(conditions) = 0 THEN [ea |-> attributes, params |-> params]
  ELSE CHOOSE result \in
         { [ea |-> r.ea,
            params |-> Put(params, name, joinWith(r.texts, <<" ", "A", "N", "D", " ">>))] :
             r \in {resolveAll(attributes, conditions, <<>>)} } : TRUE

\* KeyCondition.addParam(key, attributes, params): one equality per key
\* attribute, in the order of the key map.
KeyCondition_addParam(key, attributes, params) ==
  addAndExpression([i \in 1..Len(key) |-> eq(key[i].key, key[i].val)],
                   attributes, params, "KeyConditionExpression")

\* The table's entries first, then the caller's, which replace them.
baseParams_callerLast(options, entries) == applyWrites(entries, options.params)

\* { ...options.params, TableName: this.name, ...: the caller's entries
\* first, then the table's own, which replace a caller's entry of that name.
baseParams(options, entries) == applyWrites(options.params, entries)

\* The second object alone.
spread_second(a, b) == b

\* Object spread { ...a, ...b }
spread(a, b) == applyWrites(a, b)

\* this.getPartitionKey(): the name of the HASH key of the keySchema.
getPartitionKey ==
  table.keySchema[CHOOSE i \in 1..Len(table.keySchema) : table.keySchema[i].val = "HASH"].key

\* Table.getPutCondition(options.writeOptions || 'Always'): none or one resolver.
getPutCondition(writeOptions) ==
  CASE writeOptions = "Exists" -> <<exists(getPartitionKey)>>
    [] writeOptions = "NotExists" -> <<notExists(getPartitionKey)>>
    [] OTHER -> <<>>

\* What a builder leaves behind: the request object it returns and the
\* interner it compiled with (the caller's, when the caller supplied one).
built(r) == [attributes |-> r.ea, params |-> addParams(r.ea, r.params)]

\* Table.getParams(key, options)
tableGetParams(key, options) ==
  baseParams(options, <<[key |-> "TableName", val |-> table.name],
                        [key |-> "Key", val |-> key]>>)

\* Table.deleteParams(key, options)
tableDeleteParams(key, options) ==
  CHOOSE result \in
    { built(c) :
        c \in { addAndExpression(
                  options.conditions, attributesOf(options),
                  baseParams(options, <<[key |-> "TableName", val |-> table.name],
                                        [key |-> "Key", val |-> key]>>),
                  "ConditionExpression") } } : TRUE

\* Table.putParams(key, item, options)
\* The conditions list of putParams after conditions.push(condition): the
\* list of options when options holds one, which the push extends in place.
putConditions(options) == options.conditions \o getPutCondition(options.writeOptions)

tablePutParams(key, item, options) ==
  CHOOSE result \in
    { built(c) :
        c \in { addAndExpression(
                  putConditions(options),
                  attributesOf(options),
                  baseParams(options, <<[key |-> "TableName", val |-> table.name],
                                        [key |-> "Item", val |-> spread(key, item)]>>),
                  "ConditionExpression") } } : TRUE

\* Table.updateParams(key, item, options)
tableUpdateParams(key, item, options) ==
  CHOOSE result \in
    { built(c) :
        c \in { addAndExpression(options.conditions, u.ea, u.params, "ConditionExpression") :
                  u \in { Update_addParam(
                            item, attributesOf(options),
                            baseParams(options,
                                       <<[key |-> "TableName", val |-> table.name],
                                         [key |-> "Key", val |-> key]>>)) } } } : TRUE

\* Table.queryParams(key, options)
tableQueryParams(key, options) ==
  CHOOSE result \in
    { built(c) :
        c \in { addAndExpression(options.conditions, k.ea, k.params, "FilterExpression") :
                  k \in { KeyCondition_addParam(
                            key, attributesOf(options),
                            baseParams(options,
                                       <<[key |-> "TableName", val |-> table.name]>>)) } } } : TRUE

\* Table.scanParams(options)
tableScanParams(options) ==
  CHOOSE result \in
    { built(c) :
        c \in { addAndExpression(
                  options.conditions, attributesOf(options),
                  baseParams(options, <<[key |-> "TableName", val |-> table.name]>>),
                  "FilterExpression") } } : TRUE

-----------------------------------------------------------------------------
(* The Model under one call *)

ModelInputs ==
  { <<[key |-> fId, val |-> <<"1", ".", "2">>]>>,
    <<[key |-> fId, val |-> <<"1">>]>>,
    <<[key |-> fName, val |-> <<"x">>], [key |-> fId, val |-> <<"1", ".", "2">>]>>,
    <<[key |-> fId, val |-> <<"1", ".", "2">>], [key |-> fName, val |-> Null],
      [key |-> fHide, val |-> <<"h">>]>>,
    <<[key |-> fId, val |-> <<"1", ".", "2">>], [key |-> fRange, val |-> <<"5">>],
      [key |-> fCity, val |-> <<"c">>]>>,
    <<[key |-> fHide, val |-> Null], [key |-> fId, val |-> <<"1">>],
      [key |-> fNick, val |-> <<"k">>]>> }

TableInputs ==
  { <<[key |-> attrP, val |-> <<"1">>], [key |-> attrS, val |-> <<"2">>],
      [key |-> attrNm, val |-> <<"x">>], [key |-> fHide, val |-> <<"h">>]>>,
    <<[key |-> attrP, val |-> <<"1">>]>> }

\* Records of updates: fields listed in another order than the schema
\* declares them, one of them with a map of directives.
UpdateRecordInputs ==
  { <<[key |-> f7, val |-> <<"y">>],
      [key |-> fRange, val |-> <<"5">>],
      [key |-> fName, val |-> Update_map(<<[key |-> <<"b">>, val |-> <<"x">>],
                                           [key |-> <<"a">>, val |-> Null],
                                           [key |-> attrRange, val |-> <<"w">>]>>)],
      [key |-> fId, val |-> <<"1", ".", "2">>]>> }

\* The methods of the Model: the passes, the request builders, and the
\* actions, which hand the request to the store client.
Operations ==
  {"toTable", "toTableUpdate", "toModel", "getParams", "putParams", "deleteParams",
   "updateParams", "get", "put", "delete", "update"}

Actions == {"get", "put", "delete", "update"}

\* The pass a method starts with: toTableUpdate for the updates, toModel for
\* itself, toTable (directly or through toTableKey) for the others.
passKind(op) ==
  CASE op \in {"updateParams", "update", "toTableUpdate"} -> "toTableUpdate"
    [] op = "toModel" -> "toModel"
    [] OTHER -> "toTable"

\* What the store may answer: no Item / Attributes, an empty one, or one
\* with attributes; or it fails.
StoreResponses ==
  { [ok |-> TRUE, item |-> <<>>],
    [ok |-> TRUE, item |-> << <<>> >>],
    [ok |-> TRUE, item |-> << <<[key |-> attrP, val |-> <<"8">>],
                                [key |-> attrS, val |-> <<"9">>],
                                [key |-> attrNm, val |-> <<"w">>],
                                [key |-> fHide, val |-> <<"h">>]>> >>],
    [ok |-> FALSE, item |-> <<>>] }

InitModel ==
  /\ isReservedName = {}
  /\ isValidName = {}
  /\ treatNameAsPath = TRUE
  /\ ea = NewExpressionAttributes
  /\ fresh = NewExpressionAttributes
  /\ last = [op |-> "new", arg |-> <<>>, pre |-> NewExpressionAttributes, ret |-> <<>>,
             freshRet |-> <<>>, calls |-> <<>>]
  /\ nameLog = {}
  /\ firstSeen = <<>>
  /\ valueLog = <<>>
  /\ dirtyReset = FALSE
  /\ steps = 0
  /\ schema \in SchemaChoices
  /\ pass = IdlePass
  /\ call = IdleCall
  /\ client = NoClient
  /\ NoPasses
  /\ request = NoRequest
  /\ codec = NoCodec
  /\ topology = NoTopology

\* A method of the Model is called: it runs to the first await of its pass.
Call(op, data) ==
  /\ call.status = "idle"
  /\ data \in (IF op = "toModel" THEN TableInputs
               ELSE IF passKind(op) = "toTableUpdate"
               THEN ModelInputs \cup UpdateRecordInputs ELSE ModelInputs)
  /\ call' = [IdleCall EXCEPT !.op = op, !.data = data, !.status = "pending",
                              !.phase = "encode"]
  /\ pass' = beginPass(passKind(op), data)
  /\ UNCHANGED <<eaVars, schema, client, restVars>>

\* The awaited field method settles with one of its outcomes and the pass
\* runs to its next await, its return or its failure.
FieldDone ==
  /\ pass.status = "awaiting"
  /\ \E outcome \in fieldOutcomes(pass.kind, pass.keys[pass.i],
                                  Get(schema, pass.keys[pass.i]), pass.data) :
       /\ pass' = resumePass(pass, outcome)
       /\ call' = [call EXCEPT !.hooks = Append(@, outcome)]
  /\ UNCHANGED <<eaVars, schema, client, restVars>>

\* The request a method builds from the key and item maps of its pass:
\* Model.getParams / putParams / deleteParams / updateParams, and the same
\* through Table.get / put / delete / update.
requestOf(op, tableData) ==
  CASE op \in {"getParams", "get"} ->
         [attributes |-> NewExpressionAttributes,
          params |-> tableGetParams(tableData.key, NoOptions)]
    [] op \in {"deleteParams", "delete"} -> tableDeleteParams(tableData.key, NoOptions)
    [] op \in {"putParams", "put"} ->
         tablePutParams(tableData.key, tableData.item, NoOptions)
    [] op \in {"updateParams", "update"} -> updateParams(tableData.key, tableData.item)
    [] OTHER -> [attributes |-> NewExpressionAttributes, params |-> <<>>]

\* The store client is invoked although the pass has not returned.
mayInvokeStore_noAwait(p) == p.status \in {"awaiting", "returned"}

\* const tableData = await this.toTable(data): the method goes on to the
\* store only with the returned maps.
mayInvokeStore(p) == p.status = "returned"

\* The pass of an action has returned: the request is built and handed to
\* the store client, and the method awaits the answer.
StoreInvoke ==
  /\ call.status = "pending"
  /\ call.op \in Actions
  /\ call.phase = "encode"
  /\ mayInvokeStore(pass)
  /\ \E tableData \in {passResult(pass.kind, pass.tableData)} :
     \E r \in {requestOf(call.op, tableData)} :
       /\ call' = [call EXCEPT !.status = "store", !.phase = "store", !.params = r.params,
                               !.attributes = r.attributes,
                               !.encoded = <<tableData>>]
       /\ client' = [client EXCEPT !.invocations =
                        Append(@, [method |-> call.op, params |-> r.params,
                                   visited |-> pass.completed])]
  /\ UNCHANGED <<eaVars, schema, pass, restVars>>

\* The store answers. put reads back what it wrote; get, delete and update
\* read the Item / Attributes of the answer, if there is one.
StoreRespond(response) ==
  /\ call.status = "store"
  /\ client' = [client EXCEPT !.responses = Append(@, response)]
  /\ IF ~response.ok
     THEN /\ call' = [call EXCEPT !.status = "failed", !.error = <<"store">>]
          /\ pass' = pass
     ELSE IF call.op = "put"
     THEN /\ call' = [call EXCEPT !.status = "pending", !.phase = "decode", !.hooks = <<>>]
          /\ pass' = beginPass("toModel",
                                spread(call.encoded[1].key, call.encoded[1].item))
     ELSE IF Len(response.item) > 0
     THEN /\ call' = [call EXCEPT !.status = "pending", !.phase = "decode", !.hooks = <<>>]
          /\ pass' = beginPass("toModel", response.item[1])
     ELSE /\ call' = [call EXCEPT !.status = "returned", !.result = <<>>]
          /\ pass' = pass
  /\ UNCHANGED <<eaVars, schema, restVars>>

\* The last pass of the method has returned: the method returns, a request
\* builder after building the params, an action with the model it read.
CallReturn ==
  /\ call.status = "pending"
  /\ pass.status = "returned"
  /\ call.op \in Actions => call.phase = "decode"
  /\ \E r \in {IF call.op \in Actions
                THEN [attributes |-> call.attributes, params |-> call.params]
                ELSE requestOf(call.op, pass.result)} :
       call' = [call EXCEPT !.status = "returned", !.params = r.params,
                            !.attributes = r.attributes,
                            !.result = IF pass.kind = "toModel" THEN <<pass.result>>
                                       ELSE @]
  /\ UNCHANGED <<eaVars, schema, pass, client, restVars>>

\* The pass has failed: the method called fails with the failure of the
\* field method.
CallFail ==
  /\ call.status = "pending"
  /\ pass.status = "failed"
  /\ call' = [call EXCEPT !.status = "failed", !.error = pass.keys[pass.i]]
  /\ UNCHANGED <<eaVars, schema, pass, client, restVars>>

NextModel ==
  \/ \E op \in Operations, data \in ModelInputs \cup UpdateRecordInputs \cup TableInputs :
       Call(op, data)
  \/ FieldDone
  \/ StoreInvoke
  \/ \E response \in StoreResponses : StoreRespond(response)
  \/ CallReturn
  \/ CallFail

SpecModel == InitModel /\ [][NextModel]_vars

-----------------------------------------------------------------------------
(* Two codec passes of one Model in flight at the same time *)

\* One object kept by the Model for all its passes.
allocate_member(objects) == 1

\* const tableData = {} / const out = {}: a new object, under the next free
\* reference.
allocate(objects) == Len(objects) + 1

PassKinds == {"toTable", "toTableUpdate", "toModel"}

\* The records of the two callers: no value of one occurs in another.
PassInputs(kind) ==
  IF kind = "toModel"
  THEN { <<[key |-> attrP, val |-> <<"1">>], [key |-> attrS, val |-> <<"2">>],
           [key |-> attrNm, val |-> <<"x">>]>>,
         <<[key |-> attrP, val |-> <<"3">>], [key |-> fNick, val |-> <<"k">>]>> }
  ELSE { <<[key |-> fId, val |-> <<"1", ".", "2">>], [key |-> fName, val |-> <<"x">>]>>,
         <<[key |-> fName, val |-> <<"y">>], [key |-> fId, val |-> <<"3">>],
           [key |-> fRange, val |-> <<"5">>]>> }

InitPasses ==
  /\ isReservedName = {}
  /\ isValidName = {}
  /\ treatNameAsPath = TRUE
  /\ ea = NewExpressionAttributes
  /\ fresh = NewExpressionAttributes
  /\ last = [op |-> "new", arg |-> <<>>, pre |-> NewExpressionAttributes, ret |-> <<>>,
             freshRet |-> <<>>, calls |-> <<>>]
  /\ nameLog = {}
  /\ firstSeen = <<>>
  /\ valueLog = <<>>
  /\ dirtyReset = FALSE
  /\ steps = 0
  /\ schema \in SchemaChoices
  /\ pass = IdlePass
  /\ call = IdleCall
  /\ client = NoClient
  /\ NoPasses
  /\ request = NoRequest
  /\ codec = NoCodec
  /\ topology = NoTopology

\* Caller p calls toTable, toTableUpdate or toModel: the pass allocates its
\* accumulator and runs to its first await.
StartPass(p, kind, data) ==
  /\ passes[p].status = "idle"
  /\ data \in PassInputs(kind)
  /\ \E ref \in {allocate(heap)} :
       /\ heap' = IF ref > Len(heap) THEN Append(heap, <<>>)
                  ELSE [heap EXCEPT ![ref] = <<>>]
       /\ frames' = [frames EXCEPT ![p] = [ref |-> ref, hooks |-> <<>>]]
  /\ passes' = [passes EXCEPT ![p] = beginPass(kind, data)]
  /\ UNCHANGED <<eaVars, modelVars, request, codec, topology>>

\* The field method awaited by the pass of caller p settles: it has written
\* to the object the pass handed to it, and the pass runs on to its next
\* await, its return or its failure.
HookDone(p) ==
  /\ passes[p].status = "awaiting"
  /\ \E outcome \in fieldOutcomes(passes[p].kind, passes[p].keys[passes[p].i],
                                  Get(schema, passes[p].keys[passes[p].i]),
                                  passes[p].data) :
       \E q \in {resumePass([passes[p] EXCEPT !.tableData = heap[frames[p].ref]],
                             outcome)} :
         /\ passes' = [passes EXCEPT ![p] = q]
         /\ heap' = [heap EXCEPT ![frames[p].ref] = q.tableData]
         /\ frames' = [frames EXCEPT ![p].hooks = Append(@, outcome)]
  /\ UNCHANGED <<eaVars, modelVars, request, codec, topology>>

NextPasses ==
  \/ \E p \in PassIds, kind \in PassKinds :
       \E data \in PassInputs(kind) : StartPass(p, kind, data)
  \/ \E p \in PassIds : HookDone(p)

SpecPasses == InitPasses /\ [][NextPasses]_vars

-----------------------------------------------------------------------------
(* The Table under a sequence of requests *)

KeyInputs ==
  { <<[key |-> attrP, val |-> <<"1">>], [key |-> attrS, val |-> <<"2">>]>> }

ItemInputs ==
  { <<[key |-> attrNm, val |-> <<"x">>]>>,
    <<[key |-> attrNm, val |-> Null], [key |-> attrZ, val |-> <<"y">>]>> }

ConditionInputs == { <<>>, <<eq(attrNm, <<"x">>)>> }

WriteOptionInputs == {"Always", "NotExists"}

\* The options of a request: the application passes its own interner, ea,
\* as options.attributes, or none.
OptionInputs(given) ==
  { [attributes |-> IF given THEN <<ea>> ELSE <<>>, conditions |-> c,
     writeOptions |-> w, params |-> <<>>] :
      c \in ConditionInputs, w \in WriteOptionInputs }

InitTable ==
  /\ isReservedName = {}
  /\ isValidName = {}
  /\ treatNameAsPath = TRUE
  /\ ea = NewExpressionAttributes
  /\ fresh = NewExpressionAttributes
  /\ last = [op |-> "new", arg |-> <<>>, pre |-> NewExpressionAttributes, ret |-> <<>>,
             freshRet |-> <<>>, calls |-> <<>>]
  /\ nameLog = {}
  /\ firstSeen = <<>>
  /\ valueLog = <<>>
  /\ dirtyReset = FALSE
  /\ steps = 0
  /\ schema = <<>>
  /\ pass = IdlePass
  /\ call = IdleCall
  /\ client = NoClient
  /\ NoPasses
  /\ request = NoRequest
  /\ codec = NoCodec
  /\ topology = NoTopology

\* A builder has returned r: the request is noted, and an interner the
\* application gave holds what the builder added to it.
Built(op, given, r) ==
  /\ steps < MaxRequests
  /\ steps' = steps + 1
  /\ request' = [NoRequest EXCEPT !.op = op, !.given = given, !.pre = ea,
                                  !.attributes = r.attributes, !.params = r.params]
  /\ ea' = IF given THEN r.attributes ELSE ea
  /\ UNCHANGED <<isReservedName, isValidName, treatNameAsPath, fresh, last, nameLog,
                 firstSeen, valueLog, dirtyReset, modelVars, passVars, codec, topology>>

DeleteParams(key, given, options) ==
  /\ options.writeOptions = "Always"
  /\ \E r \in {tableDeleteParams(key, options)} : Built("deleteParams", given, r)

PutParams(key, item, given, options) ==
  \E r \in {tablePutParams(key, item, options)} : Built("putParams", given, r)

UpdateParams(key, item, given, options) ==
  /\ options.writeOptions = "Always"
  /\ \E r \in {tableUpdateParams(key, item, options)} : Built("updateParams", given, r)

QueryParams(key, given, options) ==
  /\ options.writeOptions = "Always"
  /\ \E r \in {tableQueryParams(key, options)} : Built("queryParams", given, r)

ScanParams(given, options) ==
  /\ options.writeOptions = "Always"
  /\ \E r \in {tableScanParams(options)} : Built("scanParams", given, r)

NextTable ==
  \E given \in BOOLEAN :
    \E options \in OptionInputs(given) :
      \/ \E key \in KeyInputs : DeleteParams(key, given, options)
      \/ \E key \in KeyInputs, item \in ItemInputs : PutParams(key, item, given, options)
      \/ \E key \in KeyInputs, item \in ItemInputs : UpdateParams(key, item, given, options)
      \/ \E key \in KeyInputs : QueryParams(key, given, options)
      \/ ScanParams(given, options)

SpecTable == InitTable /\ [][NextTable]_vars

-----------------------------------------------------------------------------
(* A record written through the fields of a schema and read back *)

\* The length of the strings written through the split field.
MaxLen == 4

Alphabet == {"a", "."}

\* The strings over the alphabet of length n or less.
RECURSIVE Strings(_)
Strings(n) ==
  IF n = 0 THEN {<<>>}
  ELSE Strings(n - 1) \cup {Append(t, c) : t \in Strings(n - 1), c \in Alphabet}

\* The values of a slot: none, plain ones, and one holding the separator.
SlotValues == {Undefined, <<"x">>, <<"y">>, <<"x", ".", "y">>}

\* The record that gives the fields of names the values of vals, skipping
\* the undefined ones.
RECURSIVE recordOf(_, _)
recordOf(names, vals) ==
  IF Len(names) = 0 THEN <<>>
  ELSE (IF Head(vals) = Undefined THEN <<>>
        ELSE <<[key |-> Head(names), val |-> Head(vals)]>>)
         \o recordOf(Tail(names), Tail(vals))

\* The timestamps written through the date field: up to MaxMillis
\* milliseconds before and after the epoch.
MaxMillis == 1500

CodecInputs ==
  IF schema = SplitSchema
  THEN { <<[key |-> fId, val |-> t]>> : t \in Strings(MaxLen) }
  ELSE IF schema = DateSchema
  THEN { <<[key |-> fCreated, val |-> Date(t)]>> : t \in (-MaxMillis)..MaxMillis }
  ELSE { recordOf(location.slots, <<c, t, u>>) :
           c \in SlotValues, t \in SlotValues, u \in SlotValues }

\* The field methods of one kind applied in the order of the pass, each
\* succeeding: the attribute map (or the model) they leave.
RECURSIVE eachField(_, _, _, _)
eachField(kind, keys, data, acc) ==
  IF Len(keys) = 0 THEN acc
  ELSE eachField(kind, Tail(keys), data,
                 applyWrites(acc,
                   (CHOOSE o \in fieldOutcomes(kind, Head(keys), Get(schema, Head(keys)), data) :
                      o.ok).writes))

InitFields ==
  /\ isReservedName = {}
  /\ isValidName = {}
  /\ treatNameAsPath = TRUE
  /\ ea = NewExpressionAttributes
  /\ fresh = NewExpressionAttributes
  /\ last = [op |-> "new", arg |-> <<>>, pre |-> NewExpressionAttributes, ret |-> <<>>,
             freshRet |-> <<>>, calls |-> <<>>]
  /\ nameLog = {}
  /\ firstSeen = <<>>
  /\ valueLog = <<>>
  /\ dirtyReset = FALSE
  /\ steps = 0
  /\ schema \in {SplitSchema, LocationSchema, DateSchema}
  /\ pass = IdlePass
  /\ call = IdleCall
  /\ client = NoClient
  /\ NoPasses
  /\ request = NoRequest
  /\ codec = NoCodec
  /\ topology = NoTopology

\* toTable(record): every field writes to the attribute map.
WriteRecord(record) ==
  /\ codec.status = "idle"
  /\ record \in CodecInputs
  /\ codec' = [status |-> "written", record |-> record,
               table |-> eachField("toTable", passKeys(schema), record, <<>>),
               model |-> <<>>]
  /\ UNCHANGED <<eaVars, modelVars, passVars, request, topology>>

\* toModel(attribute map): every field reads from what was written.
ReadBack ==
  /\ codec.status = "written"
  /\ codec' = [codec EXCEPT !.status = "read",
                            !.model = eachField("toModel", passKeys(schema), codec.table, <<>>)]
  /\ UNCHANGED <<eaVars, modelVars, passVars, request, topology>>

NextFields ==
  \/ \E record \in CodecInputs : WriteRecord(record)
  \/ ReadBack

SpecFields == InitFields /\ [][NextFields]_vars

-----------------------------------------------------------------------------
(* Claims about ExpressionAttributes, checked under Spec *)

DefaultPredicates == isReservedName = {} /\ isValidName = {}

NameAlias(k) == <<"#", "n">> \o numberToString(k)
ValueAlias(k) == <<":", "v">> \o numberToString(k)

EntriesFor(map, v) == {i \in 1..Len(map) : map[i].val = v}

\* C1: with default predicates and no reset in between, every request of the
\* same raw name (whole path or segment at any depth) was answered with the
\* same alias, and the names map holds exactly one entry whose value is that
\* name, under that alias.
C1_NameDedup ==
  DefaultPredicates =>
    \A c \in nameLog :
      /\ \A d \in nameLog : d.name = c.name => d.alias = c.alias
      /\ Cardinality(EntriesFor(ea.names, c.name)) = 1
      /\ HasKey(ea.names, c.alias)
      /\ Get(ea.names, c.alias) = c.name

\* The same name requested at two depths of one path, after an earlier call
\* that requested it too.
C1_Witness ==
  /\ DefaultPredicates
  /\ treatNameAsPath
  /\ last.op = "addPath"
  /\ Len(last.calls) = 3
  /\ last.calls[1].name = last.calls[3].name
  /\ last.calls[1].name \in Vals(last.pre.names)

\* C2: the aliases addValue returned since construction or the last reset
\* are pairwise distinct, also for equal values, and after k calls the values
\* map has k entries.
C2_ValueFresh ==
  /\ \A i, j \in 1..Len(valueLog) : i # j => valueLog[i] # valueLog[j]
  /\ Len(ea.values) = Len(valueLog)
  /\ Cardinality(Keys(ea.values)) = Len(valueLog)

\* Three addValue calls, two of them with the same value.
C2_Witness ==
  /\ Len(valueLog) = 3
  /\ ea.values[1].val = ea.values[3].val

\* C3: with default predicates the k-th distinct raw name first requested
\* since construction or reset has the alias #n(k-1) and the k-th addValue
\* call returned :v(k-1); a name requested again consumes no number.
C3_Numbering ==
  /\ DefaultPredicates =>
       /\ \A k \in 1..Len(firstSeen) :
            \A c \in nameLog : c.name = firstSeen[k] => c.alias = NameAlias(k - 1)
       /\ ea.nextName = Len(firstSeen)
  /\ \A k \in 1..Len(valueLog) : valueLog[k] = ValueAlias(k - 1)

\* Two distinct names numbered in order, one of them requested again, and a
\* value in between.
C3_Witness ==
  /\ DefaultPredicates
  /\ Len(valueLog) = 1
  /\ Len(firstSeen) = 2
  /\ last.op = "addPath"
  /\ Len(last.calls) = 3
  /\ Len(last.pre.names) = 1

IsSequenceAlias(alias, e) == \E k \in 0..(e.nextName - 1) : alias = NameAlias(k)

\* C4 as claimed: a name for which isReservedName holds is answered with an
\* alias #n<seq> taken from the sequence of the other name aliases.
C4_ReservedGetsSequenceAlias ==
  \A i \in 1..Len(last.calls) :
    last.calls[i].name \in isReservedName => IsSequenceAlias(last.calls[i].alias, ea)

\* C4 as amended: a name for which isReservedName holds is answered with '#'
\* followed by the name itself; that entry is written to the names map, and
\* the name counter does not advance for it.
C4_ReservedGetsHashName ==
  /\ \A i \in 1..Len(last.calls) :
       last.calls[i].name \in isReservedName =>
         /\ last.calls[i].alias = <<"#">> \o last.calls[i].name
         /\ HasKey(ea.names, last.calls[i].alias)
         /\ (i = Len(last.calls) => Get(ea.names, last.calls[i].alias) = last.calls[i].name)
  /\ (last.op = "addPath" /\ \A i \in 1..Len(last.calls) : last.calls[i].name \in isReservedName)
       => ea.nextName = last.pre.nextName

\* A reserved name aliased after a sequence alias was allocated.
C4_Witness ==
  /\ last.op = "addPath"
  /\ last.pre.nextName > 0
  /\ Len(last.calls) = 1
  /\ last.calls[1].name \in isReservedName

\* C5: a name for which isValidName holds and isReservedName does not is
\* returned unchanged, is never stored in the names map and does not advance
\* the name counter; with the default predicates every name passed to
\* addPath is replaced by an alias held by the names map.
C5_SafeNameUnchanged ==
  /\ \A i \in 1..Len(last.calls) :
       (last.calls[i].name \in isValidName \ isReservedName) =>
         last.calls[i].alias = last.calls[i].name
  /\ (last.op = "addPath"
        /\ \A i \in 1..Len(last.calls) : last.calls[i].name \in isValidName \ isReservedName)
       => (ea.names = last.pre.names /\ ea.nextName = last.pre.nextName)
  /\ Vals(ea.names) \cap (isValidName \ isReservedName) = {}
  /\ DefaultPredicates =>
       \A c \in nameLog :
         c.alias # c.name /\ Head(c.alias) = "#" /\ HasKey(ea.names, c.alias)

\* A path of two safe names, after a name that is not safe was aliased.
C5_Witness ==
  /\ last.op = "addPath"
  /\ Len(last.calls) >= 2
  /\ \A i \in 1..Len(last.calls) : last.calls[i].name \in isValidName \ isReservedName
  /\ Len(last.pre.names) > 0

HasOpen(seg) == \E i \in 1..Len(seg) : seg[i] = "["

FirstOpen(seg) ==
  CHOOSE i \in 1..Len(seg) : seg[i] = "[" /\ \A j \in 1..(i - 1) : seg[j] # "["

\* The text of a segment before its first '[' and the text from it onward.
BeforeBracket(seg) == SubSeq(seg, 1, FirstOpen(seg) - 1)
FromBracket(seg) == SubSeq(seg, FirstOpen(seg), Len(seg))

HasBracketText(name) == \E i \in 1..Len(name) : name[i] \in {"[", "]"}

\* C6 as claimed: in path mode the result has as many '.'-separated segments
\* as the path; a segment ending in ']' becomes alias(text before its first
\* '[') followed by the text from that '[' on, any other segment becomes its
\* alias; and no bracket text is stored in a value of the names map.
C6_NoBracketTextInNames ==
  /\ (treatNameAsPath /\ last.op = "addPath") =>
       LET segs == split(last.arg, ".")
           out  == split(last.ret, ".")
       IN  /\ Len(out) = Len(segs)
           /\ Len(last.calls) = Len(segs)
           /\ \A i \in 1..Len(segs) :
                IF endsWith(segs[i], "]")
                THEN HasOpen(segs[i]) =>
                       /\ last.calls[i].name = BeforeBracket(segs[i])
                       /\ out[i] = last.calls[i].alias \o FromBracket(segs[i])
                ELSE /\ last.calls[i].name = segs[i]
                     /\ out[i] = last.calls[i].alias
  /\ treatNameAsPath => \A v \in Vals(ea.names) : ~HasBracketText(v)

\* C6 as amended: as claimed for the segments, where a segment ending in ']'
\* that holds no '[' becomes the alias of the empty name followed by the
\* whole segment; the name aliased for a segment ending in ']' holds no '[',
\* while a segment not ending in ']' is aliased whole, brackets included.
C6_PathSegments ==
  (treatNameAsPath /\ last.op = "addPath") =>
    LET segs == split(last.arg, ".")
        out  == split(last.ret, ".")
    IN  /\ Len(out) = Len(segs)
        /\ Len(last.calls) = Len(segs)
        /\ \A i \in 1..Len(segs) :
             IF endsWith(segs[i], "]")
             THEN /\ last.calls[i].name =
                       (IF HasOpen(segs[i]) THEN BeforeBracket(segs[i]) ELSE <<>>)
                  /\ out[i] = last.calls[i].alias \o
                       (IF HasOpen(segs[i]) THEN FromBracket(segs[i]) ELSE segs[i])
                  /\ ~HasOpen(last.calls[i].name)
             ELSE /\ last.calls[i].name = segs[i]
                  /\ out[i] = last.calls[i].alias
        /\ DefaultPredicates =>
             \A i \in 1..Len(segs) :
               /\ HasKey(ea.names, last.calls[i].alias)
               /\ Get(ea.names, last.calls[i].alias) = last.calls[i].name

\* A two-segment path whose first segment carries two list indexes.
C6_Witness ==
  /\ treatNameAsPath
  /\ last.op = "addPath"
  /\ last.arg = <<"a", "[", "0", "]", "[", "1", "]", ".", "b">>
  /\ DefaultPredicates

\* C7: reset() leaves both maps empty and both counters 0, and from then on
\* the interner holds the state and gives the answers of an interner newly
\* constructed with the same predicates and path mode: the next value alias
\* is :v0 and, with default predicates, the next name alias is #n0.
C7_ResetAsNew ==
  /\ ea = fresh
  /\ last.ret = last.freshRet
  /\ last.op = "reset" =>
       (Len(ea.names) = 0 /\ Len(ea.values) = 0 /\ ea.nextName = 0 /\ ea.nextValue = 0)
  /\ Len(valueLog) > 0 => valueLog[1] = ValueAlias(0)
  /\ (DefaultPredicates /\ Len(firstSeen) > 0)
       => [name |-> firstSeen[1], alias |-> NameAlias(0)] \in nameLog

\* The first addValue after a reset that cleared a non-empty interner.
C7_Witness ==
  /\ dirtyReset
  /\ last.op = "addValue"
  /\ Len(valueLog) = 1
  /\ last.ret = ValueAlias(0)

-----------------------------------------------------------------------------
(* Claims about Model and Table.updateParams, checked under SpecModel *)

NamesParam == "ExpressionAttributeNames"
ValuesParam == "ExpressionAttributeValues"

\* The record of the call supplies the key field and nothing else.
KeyOnlyCall == Keys(call.data) = {fId}

\* C8: the params of updateParams hold ExpressionAttributeNames exactly when
\* the names map of the interner is non-empty and ExpressionAttributeValues
\* exactly when its values map is, each being that map; for a record that
\* supplies only the key field, the params hold TableName and Key only.
C8_MapsOnlyWhenNonEmpty ==
  (call.op = "updateParams" /\ call.status = "returned") =>
    /\ HasKey(call.params, NamesParam) <=> Len(call.attributes.names) > 0
    /\ HasKey(call.params, ValuesParam) <=> Len(call.attributes.values) > 0
    /\ HasKey(call.params, NamesParam) =>
         Get(call.params, NamesParam) = call.attributes.names
    /\ HasKey(call.params, ValuesParam) =>
         Get(call.params, ValuesParam) = call.attributes.values
    /\ (schema = UserSchema /\ KeyOnlyCall) =>
         /\ Keys(call.params) = {"TableName", "Key"}
         /\ Len(call.params) = 2
         /\ Get(call.params, "Key") = pass.result.key

\* updateParams has returned for a record of the key field alone.
C8_Witness ==
  /\ call.op = "updateParams"
  /\ call.status = "returned"
  /\ schema = UserSchema
  /\ call.data = <<[key |-> fId, val |-> <<"1", ".", "2">>]>>
  /\ Keys(pass.result.key) = {attrP, attrS}

KeySchemaNames == {table.keySchema[i].key : i \in 1..Len(table.keySchema)}

NoDuplicateKeys(map) == Cardinality(Keys(map)) = Len(map)

\* C9: of the accumulated attribute map, the key map holds exactly the
\* attributes named in the table's keySchema whose value is defined, the
\* item map exactly the others, each with its value unchanged; an attribute
\* that is a key of a secondary index only (G0S) is in the item map.
C9_SplitByName ==
  (pass.status = "returned" /\ pass.kind \in {"toTable", "toTableUpdate"}) =>
    LET data == pass.tableData
        key  == pass.result.key
        item == pass.result.item
    IN  /\ Keys(key) = {a \in Keys(data) : a \in KeySchemaNames /\ Get(data, a) # Undefined}
        /\ Keys(item) = Keys(data) \ Keys(key)
        /\ \A a \in Keys(key) : Get(key, a) = Get(data, a)
        /\ \A a \in Keys(item) : Get(item, a) = Get(data, a)
        /\ NoDuplicateKeys(key) /\ NoDuplicateKeys(item)
        /\ attrG0S \in Keys(data) => attrG0S \in Keys(item)

\* A split of a map with a defined key attribute, a key attribute whose
\* value is undefined, an index key attribute and a plain attribute.
C9_Witness ==
  /\ pass.status = "returned"
  /\ pass.kind = "toTable"
  /\ Keys(pass.tableData) = {attrP, attrS, attrG0S, attrZ}
  /\ Get(pass.tableData, attrS) = Undefined
  /\ Keys(pass.result.key) = {attrP}

DeclaredNames(sch) == [i \in 1..Len(sch) |-> sch[i].key]

DeclaredAt(sch, name) == CHOOSE i \in 1..Len(sch) : sch[i].key = name

\* order lists every field of sch once: the names that are array indexes
\* first, in ascending numeric order, then the others in declaration order.
IsKeyOrder(order, sch) ==
  /\ Len(order) = Len(sch)
  /\ Range(order) = Range(DeclaredNames(sch))
  /\ \A i, j \in 1..Len(order) :
       i < j =>
         CASE IsArrayIndex(order[i]) /\ IsArrayIndex(order[j]) ->
                stringToNumber(order[i]) < stringToNumber(order[j])
           [] IsArrayIndex(order[i]) /\ ~IsArrayIndex(order[j]) -> TRUE
           [] ~IsArrayIndex(order[i]) /\ IsArrayIndex(order[j]) -> FALSE
           [] OTHER -> DeclaredAt(sch, order[i]) < DeclaredAt(sch, order[j])

IsPrefix(short, long) ==
  Len(short) <= Len(long) /\ short = SubSeq(long, 1, Len(short))

\* C10 as claimed: every pass that has ended has invoked the method of every
\* field of the schema exactly once, in declaration order.
C10_EveryFieldInDeclarationOrder ==
  pass.status \in {"returned", "failed"} => pass.started = DeclaredNames(schema)

\* C10 as amended: a pass that returns has invoked the method of every field
\* once, fields absent from the record included, in the order of
\* Object.keys(schema): declaration order, with the names that are array
\* indexes first; a pass that fails has invoked, in that order, the fields
\* up to the failing one and no other.
C10_VisitOrder ==
  pass.status # "idle" =>
    /\ IsKeyOrder(pass.keys, schema)
    /\ IsPrefix(pass.started, pass.keys)
    /\ (\A i \in 1..Len(schema) : ~IsArrayIndex(schema[i].key))
         => pass.keys = DeclaredNames(schema)
    /\ pass.status = "returned" =>
         (pass.started = pass.keys /\ pass.completed = pass.keys)
    /\ pass.status \in {"awaiting", "failed"} =>
         pass.completed = SubSeq(pass.started, 1, Len(pass.started) - 1)

\* A toTable pass has returned for a record that supplies one field of six.
C10_Witness ==
  /\ pass.status = "returned"
  /\ pass.kind = "toTable"
  /\ schema = UserSchema
  /\ Keys(pass.data) = {fId}
  /\ Len(pass.started) = 6

\* The pass run with no other pass in flight, its hooks settling as given.
RECURSIVE runAlone(_, _, _, _)
runAlone(kind, keys, hooks, acc) ==
  IF Len(keys) = 0 THEN [status |-> "returned", result |-> passResult(kind, acc)]
  ELSE IF Len(hooks) = 0 THEN [status |-> "awaiting", result |-> <<>>]
  ELSE IF ~Head(hooks).ok THEN [status |-> "failed", result |-> <<>>]
  ELSE runAlone(kind, Tail(keys), Tail(hooks), applyWrites(acc, Head(hooks).writes))

\* The hook of some field failed in the pass under way.
HookFailed == \E k \in 1..Len(call.hooks) : ~call.hooks[k].ok

WriteCall ==
  call.phase = "encode" /\ pass.kind \in {"toTable", "toTableUpdate"}

\* What C13 says of the call itself: the pass has no key or item map, the
\* call does not return and builds no request, and when it has ended it has
\* failed with the failure of the failing field.
FailureSurfaces ==
  /\ ~call.hooks[Len(call.hooks)].ok
  /\ \A k \in 1..(Len(call.hooks) - 1) : call.hooks[k].ok
  /\ pass.status = "failed"
  /\ pass.result = <<>>
  /\ call.status \in {"pending", "failed"}
  /\ call.params = <<>>
  /\ Len(call.encoded) = 0
  /\ call.status = "failed" => call.error = pass.keys[Len(call.hooks)]

\* C13 as claimed: once the hook of a field has failed in a toTable or
\* toTableUpdate pass, the call fails with that failure and returns no key
\* or item map, and no field declared after the failing one has been
\* visited.
C13_NoLaterDeclaredFieldVisited ==
  (WriteCall /\ HookFailed) =>
    /\ FailureSurfaces
    /\ \A k \in 1..Len(pass.started) :
         DeclaredAt(schema, pass.started[k])
           <= DeclaredAt(schema, pass.keys[Len(call.hooks)])

\* C13 as amended: as claimed for the call; the fields visited are those up
\* to the failing one in the order of Object.keys(schema), so that no field
\* after the failing one in that order has been visited, while a field
\* declared after it under a name that is an array index has.
C13_FailureAborts ==
  (WriteCall /\ HookFailed) =>
    /\ FailureSurfaces
    /\ pass.started = SubSeq(pass.keys, 1, Len(call.hooks))
    /\ \A k \in (Len(call.hooks) + 1)..Len(pass.keys) :
         pass.keys[k] \notin Range(pass.started)

\* putParams has failed on the hook of the field declared first, which is
\* visited second: one field was visited before, one was not visited.
C13_Witness ==
  /\ call.op = "putParams"
  /\ call.status = "failed"
  /\ schema = CustomSchema
  /\ call.error = f10
  /\ pass.started = <<f7, f10>>

\* The requests the store client was handed.
Invocations == client.invocations

\* C14: for get, put, delete and update: while the pass that encodes the
\* argument is under way (phase "encode") or has failed, the store client
\* has not been invoked and no request or interner of the call exists; from
\* then on it has been invoked exactly once, with the request of the call,
\* after every field of the schema was processed.
C14_StoreAfterPass ==
  call.op \in Actions =>
    /\ Len(Invocations) <= 1
    /\ (call.phase = "encode" /\ call.status \in {"pending", "failed"}) =>
         /\ Len(Invocations) = 0
         /\ call.params = <<>>
         /\ call.attributes = NewExpressionAttributes
    /\ (call.phase = "encode" /\ HookFailed) => Len(Invocations) = 0
    /\ call.phase \in {"store", "decode"} =>
         /\ Len(Invocations) = 1
         /\ Invocations[1].method = call.op
         /\ Invocations[1].params = call.params
         /\ Invocations[1].visited = passKeys(schema)
    /\ call.status = "returned" => Len(Invocations) = 1

\* update has failed on the hook of the last field: the store was not
\* reached.
C14_Witness ==
  /\ call.op = "update"
  /\ call.status = "failed"
  /\ call.phase = "encode"
  /\ schema = UserSchema
  /\ call.error = fRange
  /\ Len(pass.completed) = Len(schema) - 1

\* toModel run on data, every field method succeeding.
decode(data) ==
  runAlone("toModel", passKeys(schema),
           [k \in 1..Len(schema) |->
              CHOOSE o \in fieldToModel(passKeys(schema)[k],
                                        Get(schema, passKeys(schema)[k]), data) : o.ok],
           <<>>).result

\* C16: put returns the model read back from the key and item attributes
\* it wrote, defaults included, whatever the store answered; get, delete
\* and update return undefined when the answer has no Item / Attributes,
\* and otherwise the model read from it.
C16_ActionResults ==
  (call.op \in Actions /\ call.status = "returned") =>
    LET response == client.responses[1]
    IN  IF call.op = "put"
        THEN /\ Len(call.result) = 1
             /\ call.result[1] = decode(spread(call.encoded[1].key, call.encoded[1].item))
             /\ call.params = <<[key |-> "TableName", val |-> table.name],
                                [key |-> "Item",
                                 val |-> spread(call.encoded[1].key, call.encoded[1].item)]>>
             /\ schema = UserSchema =>
                  /\ Lookup(call.result[1], fId) = Lookup(call.data, fId)
                  /\ Lookup(call.result[1], fNick) =
                       (IF HasKey(call.data, fNick) THEN Get(call.data, fNick) ELSE <<"-">>)
        ELSE IF Len(response.item) = 0
        THEN Len(call.result) = 0
        ELSE /\ Len(call.result) = 1
             /\ call.result[1] = decode(response.item[1])

\* put has returned a model with the default of a field the record left
\* out, after a store answer that carries other attributes.
C16_Witness ==
  /\ call.op = "put"
  /\ call.status = "returned"
  /\ schema = UserSchema
  /\ ~HasKey(call.data, fNick)
  /\ Lookup(call.result[1], fNick) = <<"-">>
  /\ Len(client.responses[1].item) = 1
  /\ Len(client.responses[1].item[1]) > 0

\* The values of a map.
ValuesOf(map) == {map[i].val : i \in 1..Len(map)}

WritePasses == {"toTable", "toTableUpdate"}

\* The value the record of the call gives the hidden field.
HiddenValue == Lookup(call.data, fHide)

\* C21: under a schema with a hidden field, an attribute map under
\* construction or returned by toTable / toTableUpdate has no attribute of
\* the name of the hidden field and none holding the value the record gives
\* it; the requests built from it have no name alias for the field and no
\* value alias for its value; and the model toModel builds never has the
\* field, also when the table data has an attribute of that name.
C21_HiddenNeverContributes ==
  schema = UserSchema =>
    /\ ~HasKey(pass.tableData, fHide)
    /\ pass.status = "returned" =>
          IF pass.kind = "toModel" THEN ~HasKey(pass.result, fHide)
          ELSE /\ ~HasKey(pass.result.key, fHide)
               /\ ~HasKey(pass.result.item, fHide)
    /\ (pass.kind \in WritePasses /\ call.phase = "encode" /\ HasKey(call.data, fHide)) =>
          /\ HiddenValue \notin ValuesOf(pass.tableData)
          /\ \A i \in 1..Len(call.hooks) :
                pass.keys[i] = fHide => call.hooks[i] = Ok(<<>>)
    /\ (call.status \in {"returned", "store"} /\ HasKey(call.data, fHide)
          /\ call.op \notin {"toModel"}) =>
          /\ fHide \notin ValuesOf(call.attributes.names)
          /\ HiddenValue \notin ValuesOf(call.attributes.values)
          /\ \A k \in {"Key", "Item"} :
                HasKey(call.params, k) =>
                  /\ ~HasKey(Get(call.params, k), fHide)
                  /\ HiddenValue \notin ValuesOf(Get(call.params, k))
    /\ (call.status = "returned" /\ Len(call.result) = 1) => ~HasKey(call.result[1], fHide)

\* updateParams has returned for a record that sets the hidden field to
\* null and another field to a value: the request names the other field only.
C21_Witness ==
  /\ schema = UserSchema
  /\ call.op = "updateParams"
  /\ call.status = "returned"
  /\ HiddenValue = Null
  /\ ValuesOf(call.attributes.names) = {fNick}

\* The default of the field nick of the schema.
NickDefault == Get(UserSchema, fNick).default

\* C22: under a schema whose field nick has a default, the attribute map
\* toTable returns holds the value the record gives nick, or the default
\* when the record has no nick; the map toTableUpdate returns holds nick
\* only when the record does, with its value; the model toModel returns
\* holds nick only when the table data does; and the requests built carry
\* the same: a put Item always holds nick, an update assigns it only when
\* the record does.
C22_DefaultOnWholeWriteOnly ==
  (schema = UserSchema /\ pass.status = "returned") =>
    /\ pass.kind = "toTable" =>
          Lookup(pass.result.item, fNick) =
            (IF HasKey(pass.data, fNick) THEN Get(pass.data, fNick) ELSE NickDefault)
    /\ pass.kind = "toTableUpdate" =>
          Lookup(pass.result.item, fNick) = Lookup(pass.data, fNick)
    /\ pass.kind = "toModel" => Lookup(pass.result, fNick) = Lookup(pass.data, fNick)
    /\ (call.status = "returned" /\ call.op = "putParams") =>
          Lookup(Get(call.params, "Item"), fNick) =
            (IF HasKey(call.data, fNick) THEN Get(call.data, fNick) ELSE NickDefault)
    /\ (call.status = "returned" /\ call.op = "updateParams") =>
          /\ fNick \in ValuesOf(call.attributes.names) <=> HasKey(call.data, fNick)
          /\ NickDefault \notin ValuesOf(call.attributes.values)

\* putParams has returned an Item with the default for a record without
\* nick.
C22_Witness ==
  /\ schema = UserSchema
  /\ call.op = "putParams"
  /\ call.status = "returned"
  /\ ~HasKey(call.data, fNick)
  /\ Get(Get(call.params, "Item"), fNick) = NickDefault
  /\ NickDefault # Undefined

-----------------------------------------------------------------------------
(* Claims about passes in flight at the same time, checked under SpecPasses *)

\* The field methods a pass has invoked that have not settled.
InProgress(q) ==
  IF q.status = "awaiting" THEN Range(q.started) \ Range(q.completed) ELSE {}

\* C11: in every pass, each field method invoked before the latest one has
\* completed, so the method of field k+1 was not invoked before that of
\* field k completed, and at most one field method of the pass is in
\* progress, however the other pass is scheduled around its suspensions.
C11_OneFieldAtATime ==
  \A p \in PassIds :
    LET q == passes[p]
    IN  /\ \A k \in 1..(Len(q.started) - 1) : q.started[k] \in Range(q.completed)
        /\ Cardinality(InProgress(q)) <= 1
        /\ IsPrefix(q.completed, q.started)

\* Both passes are suspended in the hook of a later field.
C11_Witness ==
  /\ \A p \in PassIds : passes[p].status = "awaiting" /\ Len(passes[p].completed) >= 2
  /\ passes[1].keys[passes[1].i] # passes[2].keys[passes[2].i]

\* The values of the attributes of a result.
ResultValues(kind, result) ==
  IF kind = "toModel" THEN Vals(result) ELSE Vals(result.key) \cup Vals(result.item)

\* The attribute values the fields can produce from a record.
OwnValues(kind, data) ==
  UNION { UNION { Vals(o.writes) : o \in fieldOutcomes(kind, schema[i].key, schema[i].val, data) }
            : i \in 1..Len(schema) }

\* C12: a pass that has ended while another was in flight has the status
\* and the result of the same pass run alone with the same hook outcomes;
\* the two passes accumulate into different objects, and a result holds
\* only values its fields produce from the pass's own record.
C12_PassesIndependent ==
  \A p \in PassIds :
    LET q == passes[p]
    IN  /\ q.status \in {"returned", "failed"} =>
              LET alone == runAlone(q.kind, passKeys(schema), frames[p].hooks, <<>>)
              IN  /\ q.status = alone.status
                  /\ q.result = alone.result
        /\ q.status = "returned" =>
              ResultValues(q.kind, q.result) \subseteq OwnValues(q.kind, q.data)
        /\ \A o \in PassIds \ {p} :
              (q.status # "idle" /\ passes[o].status # "idle") => frames[p].ref # frames[o].ref

\* Two write passes over different records have both returned, the second
\* to start being the first to return.
C12_Witness ==
  /\ \A p \in PassIds : passes[p].status = "returned" /\ passes[p].kind = "toTable"
  /\ passes[1].data # passes[2].data
  /\ schema = UserSchema
  /\ frames[1].ref = 2

-----------------------------------------------------------------------------
(* Claims about the requests of a Table, checked under SpecTable *)

Contains(text, part) ==
  \E i \in 0..(Len(text) - Len(part)) : SubSeq(text, i + 1, i + Len(part)) = part

ExpressionParams ==
  {"UpdateExpression", "ConditionExpression", "KeyConditionExpression", "FilterExpression"}

\* The alias occurs in an expression of the request.
UsedBy(params, alias) ==
  \E name \in ExpressionParams :
    HasKey(params, name) /\ Contains(Get(params, name), alias)

\* The aliases of the request start at #n0 and :v0 and each of them occurs
\* in an expression of the request.
OwnAliasesOnly(params) ==
  LET names  == Lookup(params, NamesParam)
      values == Lookup(params, ValuesParam)
  IN  /\ HasKey(params, NamesParam) =>
            /\ names[1].key = NameAlias(0)
            /\ \A i \in 1..Len(names) : UsedBy(params, names[i].key)
      /\ HasKey(params, ValuesParam) =>
            /\ values[1].key = ValueAlias(0)
            /\ \A i \in 1..Len(values) : UsedBy(params, values[i].key)

\* C15 as claimed: every request is compiled with an interner no other
\* request has used: its aliases start at #n0 and :v0 and its names and
\* values hold no entry produced for another request.
C15_InternerNeverShared ==
  request.op # "none" =>
    /\ request.pre = NewExpressionAttributes
    /\ OwnAliasesOnly(request.params)

\* C15 as amended: a request whose options give no attributes is compiled
\* with a new interner, whatever was built before: its aliases start at
\* #n0 and :v0, every entry of its names and values is used by its own
\* expressions, and the interner of the application is left as it was. A
\* request whose options give an interner is compiled with that one: it
\* continues its numbering and its names and values hold the entries that
\* interner held before.
C15_NewInternerUnlessGiven ==
  request.op # "none" =>
    IF request.given
    THEN /\ ea = request.attributes
         /\ IsPrefix(request.pre.names, request.attributes.names)
         /\ IsPrefix(request.pre.values, request.attributes.values)
         /\ request.attributes.nextValue >= request.pre.nextValue
         /\ Len(request.attributes.names) > 0 =>
              Lookup(request.params, NamesParam) = request.attributes.names
         /\ Len(request.attributes.values) > 0 =>
              Lookup(request.params, ValuesParam) = request.attributes.values
    ELSE /\ ea = request.pre
         /\ OwnAliasesOnly(request.params)
         /\ request.attributes.nextValue = Len(request.attributes.values)
         /\ request.attributes.nextName = Len(request.attributes.names)

\* An update built without an interner of the caller, after requests that
\* left names and values in the interner of the application.
C15_Witness ==
  /\ request.op = "updateParams"
  /\ ~request.given
  /\ Len(ea.names) > 0
  /\ Len(ea.values) > 0
  /\ HasKey(request.params, NamesParam)
  /\ HasKey(request.params, ValuesParam)
  /\ HasKey(request.params, "ConditionExpression")

-----------------------------------------------------------------------------
(* An update map compiled by Table.updateParams *)

\* The number of entries of an update map.
MaxEntries == 4

\* The entries an update map is made of: two assignments, a removal, an
\* addition to a set and a deletion from a set.
UpdateEntries ==
  { [key |-> attrNm, val |-> <<"x">>],
    [key |-> attrZ, val |-> <<"y">>],
    [key |-> attrRange, val |-> Null],
    [key |-> attrG0S, val |-> Update_addToSet(<<"1">>)],
    [key |-> attrS, val |-> Update_removeFromSet(<<"2">>)] }

\* The sequences of n or fewer distinct members of entries, in every order.
RECURSIVE Arrangements(_, _)
Arrangements(entries, n) ==
  IF n = 0 THEN {<<>>}
  ELSE {<<>>} \cup UNION { { <<e>> \o t : t \in Arrangements(entries \ {e}, n - 1) } :
                            e \in entries }

UpdateInputs == Arrangements(UpdateEntries, MaxEntries)

InitUpdate ==
  /\ isReservedName = {}
  /\ isValidName = {}
  /\ treatNameAsPath = TRUE
  /\ ea = NewExpressionAttributes
  /\ fresh = NewExpressionAttributes
  /\ last = [op |-> "new", arg |-> <<>>, pre |-> NewExpressionAttributes, ret |-> <<>>,
             freshRet |-> <<>>, calls |-> <<>>]
  /\ nameLog = {}
  /\ firstSeen = <<>>
  /\ valueLog = <<>>
  /\ dirtyReset = FALSE
  /\ steps = 0
  /\ schema = <<>>
  /\ pass = IdlePass
  /\ call = IdleCall
  /\ client = NoClient
  /\ NoPasses
  /\ \E item \in UpdateInputs : request = [NoRequest EXCEPT !.item = item]
  /\ codec = NoCodec
  /\ topology = NoTopology

\* table.updateParams(key, item) with the update map item and no options.
CompileUpdate(key) ==
  /\ request.op = "none"
  /\ \E r \in {tableUpdateParams(key, request.item, NoOptions)} :
        request' = [request EXCEPT !.op = "updateParams", !.attributes = r.attributes,
                                   !.params = r.params]
  /\ UNCHANGED <<eaVars, modelVars, passVars, codec, topology>>

NextUpdate == \E key \in KeyInputs : CompileUpdate(key)

SpecUpdate == InitUpdate /\ [][NextUpdate]_vars

-----------------------------------------------------------------------------
(* A request builder of the Table called with options.params *)

\* The request builders of the Table.
Builders ==
  {"getParams", "deleteParams", "putParams", "updateParams", "queryParams", "scanParams"}

\* options.params: entries of the caller for the request object, among them
\* entries under the names the builders set themselves.
ParamsInputs ==
  { <<>>,
    <<[key |-> "ReturnValues", val |-> <<"x">>]>>,
    <<[key |-> "TableName", val |-> <<"X">>],
      [key |-> "ReturnValues", val |-> <<"x">>],
      [key |-> "Key", val |-> <<[key |-> attrP, val |-> <<"9">>]>>]>>,
    <<[key |-> "ConditionExpression", val |-> <<"c">>],
      [key |-> "Item", val |-> <<[key |-> attrZ, val |-> <<"i">>]>>],
      [key |-> "ExpressionAttributeNames",
       val |-> <<[key |-> <<"#", "a">>, val |-> <<"a">>]>>]>>,
    <<[key |-> "UpdateExpression", val |-> <<"u">>],
      [key |-> "FilterExpression", val |-> <<"f">>],
      [key |-> "KeyConditionExpression", val |-> <<"k">>],
      [key |-> "ExpressionAttributeValues",
       val |-> <<[key |-> <<":", "a">>, val |-> <<"a">>]>>]>> }

\* The builder of the name method on its arguments.
buildParams(method, key, item, options) ==
  CASE method = "getParams" ->
         [attributes |-> NewExpressionAttributes, params |-> tableGetParams(key, options)]
    [] method = "deleteParams" -> tableDeleteParams(key, options)
    [] method = "putParams" -> tablePutParams(key, item, options)
    [] method = "updateParams" -> tableUpdateParams(key, item, options)
    [] method = "queryParams" -> tableQueryParams(key, options)
    [] method = "scanParams" -> tableScanParams(options)

InitParams ==
  /\ isReservedName = {}
  /\ isValidName = {}
  /\ treatNameAsPath = TRUE
  /\ ea = NewExpressionAttributes
  /\ fresh = NewExpressionAttributes
  /\ last = [op |-> "new", arg |-> <<>>, pre |-> NewExpressionAttributes, ret |-> <<>>,
             freshRet |-> <<>>, calls |-> <<>>]
  /\ nameLog = {}
  /\ firstSeen = <<>>
  /\ valueLog = <<>>
  /\ dirtyReset = FALSE
  /\ steps = 0
  /\ schema = <<>>
  /\ pass = IdlePass
  /\ call = IdleCall
  /\ client = NoClient
  /\ NoPasses
  /\ \E key \in KeyInputs, item \in ItemInputs, params \in ParamsInputs,
        conditions \in ConditionInputs, writeOptions \in WriteOptionInputs :
        request = [NoRequest EXCEPT
                     !.key = key, !.item = item,
                     !.options = [NoOptions EXCEPT !.params = params,
                                                   !.conditions = conditions,
                                                   !.writeOptions = writeOptions]]
  /\ codec = NoCodec
  /\ topology = NoTopology

\* The builder is called with the key, item and options at hand.
BuildParams(method) ==
  /\ request.op = "none"
  /\ request.options.writeOptions # "Always" => method = "putParams"
  /\ \E r \in {buildParams(method, request.key, request.item, request.options)} :
        request' = [request EXCEPT !.op = method, !.attributes = r.attributes,
                                   !.params = r.params]
  /\ UNCHANGED <<eaVars, modelVars, passVars, codec, topology>>

NextParams == \E method \in Builders : BuildParams(method)

SpecParams == InitParams /\ [][NextParams]_vars

-----------------------------------------------------------------------------
(* Table.putParams called again and again with one options object *)

\* The number of calls of putParams on the options object.
MaxPuts == 3

PutWriteOptions == {"Always", "Exists", "NotExists"}

\* The caller makes one options object holding a conditions list.
InitOptions ==
  /\ isReservedName = {}
  /\ isValidName = {}
  /\ treatNameAsPath = TRUE
  /\ ea = NewExpressionAttributes
  /\ fresh = NewExpressionAttributes
  /\ last = [op |-> "new", arg |-> <<>>, pre |-> NewExpressionAttributes, ret |-> <<>>,
             freshRet |-> <<>>, calls |-> <<>>]
  /\ nameLog = {}
  /\ firstSeen = <<>>
  /\ valueLog = <<>>
  /\ dirtyReset = FALSE
  /\ steps = 0
  /\ schema = <<>>
  /\ pass = IdlePass
  /\ call = IdleCall
  /\ client = NoClient
  /\ NoPasses
  /\ \E params \in ParamsInputs, conditions \in ConditionInputs,
        writeOptions \in PutWriteOptions :
        request = [NoRequest EXCEPT
                     !.options = [NoOptions EXCEPT !.params = params,
                                                   !.conditions = conditions,
                                                   !.writeOptions = writeOptions]]
  /\ codec = NoCodec
  /\ topology = NoTopology

\* table.putParams(key, item, options) with the caller's options object:
\* the params are built from the conditions list as the call finds it, and
\* the call leaves the list as its push made it.
PutParamsAgain(key, item) ==
  /\ steps < MaxPuts
  /\ steps' = steps + 1
  /\ \E r \in {tablePutParams(key, item, request.options)} :
        request' = [request EXCEPT
                      !.op = "putParams", !.key = key, !.item = item,
                      !.attributes = r.attributes, !.params = r.params,
                      !.options.conditions = putConditions(request.options)]
  /\ UNCHANGED <<isReservedName, isValidName, treatNameAsPath, ea, fresh, last, nameLog,
                 firstSeen, valueLog, dirtyReset, modelVars, passVars, codec, topology>>

NextOptions == \E key \in KeyInputs, item \in ItemInputs : PutParamsAgain(key, item)

SpecOptions == InitOptions /\ [][NextOptions]_vars

-----------------------------------------------------------------------------
(* Tables and their secondary indexes *)

\* The number of calls made on the tables and indexes.
MaxCalls == 3

\* The names of the Tables, in the order of their construction, and of the
\* Index objects.
TableNames == <<table.name, <<"U">>>>
IndexNames == <<<<"G", "0">>, <<"L", "0">>>>

\* new Index(params): name as given, no table.
newIndex(name) == [name |-> name, table |-> 0]

\* An Index that keeps the table it was initialised with first.
Index_init_keepFirst(index, t) ==
  IF index.table = 0 THEN [index EXCEPT !.table = t] ELSE index

\* Index.init(table): this.table = table
Index_init(index, t) == [index EXCEPT !.table = t]

\* Table.addGlobalIndexes(gsi) / addLocalIndexes(lsi) on the table t: each
\* index of the list is initialised with the table, in order, and the list
\* is appended to the table's own.
RECURSIVE initEach(_, _, _)
initEach(topo, t, list) ==
  IF Len(list) = 0 THEN topo
  ELSE initEach([topo EXCEPT !.indexes[Head(list)] = Index_init(@, t),
                             !.log = Append(@, [index |-> Head(list), table |-> t])],
                t, Tail(list))

addGlobalIndexes(topo, t, gsi) ==
  [initEach(topo, t, gsi) EXCEPT !.tables[t].globalIndexes = @ \o gsi]

addLocalIndexes(topo, t, lsi) ==
  [initEach(topo, t, lsi) EXCEPT !.tables[t].localIndexes = @ \o lsi]

\* new Table(params): the name, empty index lists, then the global and the
\* local indexes of params are added.
newTable(topo, name, gsi, lsi) ==
  LET t == Len(topo.tables) + 1
      made == [topo EXCEPT !.tables = Append(@, [name |-> name, globalIndexes |-> <<>>,
                                                 localIndexes |-> <<>>])]
  IN  addLocalIndexes(addGlobalIndexes(made, t, gsi), t, lsi)

\* Index.getQueryOptions(options) and Index.getScanOptions(options):
\* { ...options, params: { IndexName: this.name, ...options.params } }
Index_getQueryOptions(index, options) ==
  [options EXCEPT !.params = spread(<<[key |-> "IndexName", val |-> index.name]>>,
                                    options.params)]

Index_getScanOptions(index, options) ==
  [options EXCEPT !.params = spread(<<[key |-> "IndexName", val |-> index.name]>>,
                                    options.params)]

\* A builder called on the Table t: the builders above are written for this
\* = table, on another Table this.name is the name of that Table.
onTable(t, r) == [r EXCEPT !.params = Put(@, "TableName", t.name)]

\* Index.queryParams(key, options): this.table!.queryParams(key,
\* this.getQueryOptions(options)); without a table the call throws.
Index_queryParams(topo, i, key, options) ==
  IF topo.indexes[i].table = 0
  THEN [error |-> TRUE, attributes |-> NewExpressionAttributes, params |-> <<>>]
  ELSE CHOOSE result \in
         { [error |-> FALSE, attributes |-> r.attributes, params |-> r.params] :
             r \in { onTable(topo.tables[topo.indexes[i].table],
                             tableQueryParams(key, Index_getQueryOptions(topo.indexes[i],
                                                                         options))) } } : TRUE

\* Index.scanParams(options)
Index_scanParams(topo, i, options) ==
  IF topo.indexes[i].table = 0
  THEN [error |-> TRUE, attributes |-> NewExpressionAttributes, params |-> <<>>]
  ELSE CHOOSE result \in
         { [error |-> FALSE, attributes |-> r.attributes, params |-> r.params] :
             r \in { onTable(topo.tables[topo.indexes[i].table],
                             tableScanParams(Index_getScanOptions(topo.indexes[i],
                                                                  options))) } } : TRUE

\* The lists of indexes given to a Table, and the options given to an Index.
GlobalLists == {<<>>, <<1>>, <<1, 2>>}
LocalLists == {<<>>, <<2>>}

IndexOptionInputs ==
  { [NoOptions EXCEPT !.params = <<>>, !.conditions = c] : c \in ConditionInputs }
  \cup { [NoOptions EXCEPT !.params = p] :
           p \in { <<[key |-> "Limit", val |-> <<"5">>]>>,
                   <<[key |-> "Limit", val |-> <<"5">>],
                     [key |-> "IndexName", val |-> <<"o">>]>> } }

InitIndex ==
  /\ isReservedName = {}
  /\ isValidName = {}
  /\ treatNameAsPath = TRUE
  /\ ea = NewExpressionAttributes
  /\ fresh = NewExpressionAttributes
  /\ last = [op |-> "new", arg |-> <<>>, pre |-> NewExpressionAttributes, ret |-> <<>>,
             freshRet |-> <<>>, calls |-> <<>>]
  /\ nameLog = {}
  /\ firstSeen = <<>>
  /\ valueLog = <<>>
  /\ dirtyReset = FALSE
  /\ steps = 0
  /\ schema = <<>>
  /\ pass = IdlePass
  /\ call = IdleCall
  /\ client = NoClient
  /\ NoPasses
  /\ request = NoRequest
  /\ codec = NoCodec
  /\ topology = [NoTopology EXCEPT
                   !.indexes = [i \in 1..Len(IndexNames) |-> newIndex(IndexNames[i])]]

\* One more call; everything but the tables, the indexes and the request
\* stays as it is.
Called ==
  /\ steps < MaxCalls
  /\ steps' = steps + 1
  /\ UNCHANGED <<isReservedName, isValidName, treatNameAsPath, ea, fresh, last, nameLog,
                 firstSeen, valueLog, dirtyReset, modelVars, passVars, codec>>

NewTable(gsi, lsi) ==
  /\ Len(topology.tables) < Len(TableNames)
  /\ topology' = newTable(topology, TableNames[Len(topology.tables) + 1], gsi, lsi)
  /\ request' = [NoRequest EXCEPT !.op = "new Table"]
  /\ Called

AddGlobalIndexes(t, gsi) ==
  /\ t \in 1..Len(topology.tables)
  /\ topology' = addGlobalIndexes(topology, t, gsi)
  /\ request' = [NoRequest EXCEPT !.op = "addGlobalIndexes"]
  /\ Called

AddLocalIndexes(t, lsi) ==
  /\ t \in 1..Len(topology.tables)
  /\ topology' = addLocalIndexes(topology, t, lsi)
  /\ request' = [NoRequest EXCEPT !.op = "addLocalIndexes"]
  /\ Called

GetQueryOptions(i, options) ==
  /\ request' = [NoRequest EXCEPT
                   !.op = "getQueryOptions", !.index = i, !.options = options,
                   !.returned = Index_getQueryOptions(topology.indexes[i], options)]
  /\ UNCHANGED topology
  /\ Called

GetScanOptions(i, options) ==
  /\ request' = [NoRequest EXCEPT
                   !.op = "getScanOptions", !.index = i, !.options = options,
                   !.returned = Index_getScanOptions(topology.indexes[i], options)]
  /\ UNCHANGED topology
  /\ Called

IndexQueryParams(i, key, options) ==
  /\ \E r \in {Index_queryParams(topology, i, key, options)} :
        request' = [NoRequest EXCEPT
                      !.op = "Index.queryParams", !.index = i, !.key = key,
                      !.options = options, !.attributes = r.attributes,
                      !.params = r.params, !.error = r.error]
  /\ UNCHANGED topology
  /\ Called

IndexScanParams(i, options) ==
  /\ \E r \in {Index_scanParams(topology, i, options)} :
        request' = [NoRequest EXCEPT
                      !.op = "Index.scanParams", !.index = i, !.options = options,
                      !.attributes = r.attributes, !.params = r.params,
                      !.error = r.error]
  /\ UNCHANGED topology
  /\ Called

NextIndex ==
  \/ \E gsi \in GlobalLists, lsi \in LocalLists : NewTable(gsi, lsi)
  \/ \E t \in 1..Len(TableNames), gsi \in GlobalLists : AddGlobalIndexes(t, gsi)
  \/ \E t \in 1..Len(TableNames), lsi \in LocalLists : AddLocalIndexes(t, lsi)
  \/ \E i \in 1..Len(IndexNames), options \in IndexOptionInputs :
       \/ GetQueryOptions(i, options)
       \/ GetScanOptions(i, options)
       \/ \E key \in KeyInputs : IndexQueryParams(i, key, options)
       \/ IndexScanParams(i, options)

SpecIndex == InitIndex /\ [][NextIndex]_vars

-----------------------------------------------------------------------------
(* Claims about the split and composite fields, checked under SpecFields *)

Tokens(t) == split(t, ".")

C19_CompositeRoundTrip ==
  (schema = LocationSchema /\ codec.status = "read") =>
    /\ Keys(codec.model) = Keys(codec.record)
    /\ \A n \in Keys(codec.record) : Get(codec.model, n) = Get(codec.record, n)

-----------------------------------------------------------------------------
(* Claims about the update expression, checked under SpecUpdate *)

Keywords == <<"SET", "REMOVE", "ADD", "DELETE">>

\* The keyword as it is written, without the space that follows it.
Word(keyword) == SubSeq(Str(keyword), 1, Len(Str(keyword)) - 1)

\* The places of the text at which the word starts.
Places(text, word) ==
  { i \in 1..Len(text) :
      i + Len(word) - 1 <= Len(text) /\ SubSeq(text, i, i + Len(word) - 1) = word }

\* The clauses the entries of the update map go to.
ClausesOf(item) == {clauseOf(item[i].val) : i \in 1..Len(item)} \ {"none"}

UpdateExpressionOf(params) ==
  IF HasKey(params, "UpdateExpression") THEN Get(params, "UpdateExpression") ELSE <<>>

\* C20: in the update expression of a compiled update map, the keyword of a
\* clause occurs once when the map has an entry for the clause and not at
\* all when it has none, and the keywords that occur stand in the order SET,
\* REMOVE, ADD, DELETE, in whatever order the entries are given.
C20_ClauseOrder ==
  request.op = "updateParams" =>
    LET text == UpdateExpressionOf(request.params)
    IN  /\ HasKey(request.params, "UpdateExpression") <=> ClausesOf(request.item) # {}
        /\ \A i \in 1..4 :
              Cardinality(Places(text, Word(Keywords[i]))) =
                IF Keywords[i] \in ClausesOf(request.item) THEN 1 ELSE 0
        /\ \A i, j \in 1..4 :
              i < j =>
                \A pi \in Places(text, Word(Keywords[i])),
                   pj \in Places(text, Word(Keywords[j])) : pi < pj
        /\ ClausesOf(request.item) # {} => 1 \in UNION {Places(text, Word(Keywords[i])) : i \in 1..4}

\* An update map that deletes, adds, removes and assigns, in that order, has
\* been compiled.
C20_Witness ==
  /\ request.op = "updateParams"
  /\ Len(request.item) = 4
  /\ \A i \in 1..4 : clauseOf(request.item[i].val) = Keywords[5 - i]
  /\ request.item[4].key = attrNm
  /\ Get(request.params, "UpdateExpression") =
       Str("SET") \o <<"#", "n", "3", " ", "=", " ", ":", "v", "2", " ">>
         \o Str("REMOVE") \o <<"#", "n", "2", " ">>
         \o Str("ADD") \o <<"#", "n", "1", " ", ":", "v", "1", " ">>
         \o Str("DELETE") \o <<"#", "n", "0", " ", ":", "v", "0">>

-----------------------------------------------------------------------------
(* Claim about the date field, checked under SpecFields *)

\* t % 1000 as the program computes it: of the sign of t.
Remainder(t) == IF t >= 0 THEN t % 1000 ELSE -((-t) % 1000)

\* C23: a timestamp of t milliseconds written through the date field is
\* stored as the integer s of whole seconds, t / 1000 with its fraction cut
\* off (s seconds reach towards t from the epoch and end less than a second
\* short of it), and read back as the timestamp s * 1000, which is t less
\* its remainder by 1000.
C23_DateSeconds ==
  (schema = DateSchema /\ codec.status # "idle") =>
    LET t == Get(codec.record, fCreated)[2]
        s == Get(codec.table, fCreated)[2]
    IN  /\ Keys(codec.table) = {fCreated}
        /\ Get(codec.table, fCreated) = Num(s)
        /\ t >= 0 => (1000 * s <= t /\ t < 1000 * s + 1000)
        /\ t < 0 => (t <= 1000 * s /\ 1000 * s - 1000 < t)
        /\ codec.status = "read" =>
              /\ Get(codec.model, fCreated) = Date(1000 * s)
              /\ Get(codec.model, fCreated) = Date(t - Remainder(t))

\* A timestamp in the second half of a second has been written and read
\* back as the start of that second.
C23_Witness ==
  /\ schema = DateSchema
  /\ codec.status = "read"
  /\ Get(codec.record, fCreated) = Date(1499)
  /\ Get(codec.table, fCreated) = Num(1)
  /\ Get(codec.model, fCreated) = Date(1000)

-----------------------------------------------------------------------------
(* Claim about the order of the entries of an update, checked under SpecModel *)

\* The members of list without repetition, in the order of their first
\* occurrence.
RECURSIVE Distinct(_)
Distinct(list) ==
  IF Len(list) = 0 THEN <<>>
  ELSE LET init == Distinct(SubSeq(list, 1, Len(list) - 1))
           x == list[Len(list)]
       IN  IF x \in Range(init) THEN init ELSE Append(init, x)

RECURSIVE Flatten(_)
Flatten(lists) == IF Len(lists) = 0 THEN <<>> ELSE Head(lists) \o Flatten(Tail(lists))

\* The attributes the field methods wrote, in the order the fields named by
\* order wrote them; hooks[i] is the outcome of the field pass.keys[i].
WrittenBy(order, hooks) ==
  Distinct(Flatten([k \in 1..Len(order) |->
    LET writes == hooks[CHOOSE i \in 1..Len(hooks) : pass.keys[i] = order[k]].writes
    IN  [j \in 1..Len(writes) |-> writes[j].key]]))

\* The entries of an update map, the keys of map taken in the order of
\* keys and a map directive replaced, in its place, by its own entries: each
\* with its path (the names from the attribute down) and its value.
RECURSIVE Leaves(_, _, _)
Leaves(map, keys, prefix) ==
  IF Len(keys) = 0 THEN <<>>
  ELSE LET v == Lookup(map, Head(keys))
           path == prefix \o split(Head(keys), ".")
       IN  (IF ~HasKey(map, Head(keys)) \/ v = Undefined THEN <<>>
            ELSE IF clauseOf(v) = "MAP"
            THEN Leaves(v[2], [i \in 1..Len(v[2]) |-> v[2][i].key], path)
            ELSE <<[path |-> path, val |-> v]>>)
             \o Leaves(map, Tail(keys), prefix)

\* The text of entry i of leaves: its path under the aliases of names, and
\* the alias of its value, numbered by the values before it.
EntryText(names, leaves, i) ==
  LET path == leaves[i].path
      AliasOf(segment) == CHOOSE a \in Keys(names) : Get(names, a) = segment
      text == joinWith([k \in 1..Len(path) |-> AliasOf(path[k])], <<".">>)
      n == Cardinality({j \in 1..(i - 1) : clauseOf(leaves[j].val) # "REMOVE"})
  IN  CASE clauseOf(leaves[i].val) = "SET" -> text \o <<" ", "=", " ">> \o ValueAlias(n)
        [] clauseOf(leaves[i].val) = "REMOVE" -> text
        [] OTHER -> text \o <<" ">> \o ValueAlias(n)

\* The update expression that lists, in each clause, the entries of leaves
\* of that clause in the order of leaves.
ExpressionOf(names, leaves) ==
  LET Entries(c) ==
        LET idx == SelectSeq([i \in 1..Len(leaves) |-> i],
                             LAMBDA i : clauseOf(leaves[i].val) = c)
        IN  [k \in 1..Len(idx) |-> EntryText(names, leaves, idx[k])]
      Clause(c) ==
        IF Len(Entries(c)) = 0 THEN <<>>
        ELSE <<Word(c) \o <<" ">> \o joinWith(Entries(c), <<",", " ">>)>>
  IN  joinWith(Clause("SET") \o Clause("REMOVE") \o Clause("ADD") \o Clause("DELETE"),
               <<" ">>)

\* The update expression and the names map of the request list the entries
\* of the item map in the order the fields named by order wrote them: each
\* clause in that order, and the names numbered as they first occur in it.
EntriesFollow(order) ==
  LET leaves == Leaves(pass.result.item, WrittenBy(order, call.hooks), <<>>)
      names == call.attributes.names
      segments == Distinct(Flatten([i \in 1..Len(leaves) |-> leaves[i].path]))
  IN  /\ Len(names) = Len(segments)
      /\ \A k \in 1..Len(names) :
            names[k].key = NameAlias(k - 1) /\ names[k].val = segments[k]
      /\ UpdateExpressionOf(call.params) = ExpressionOf(names, leaves)

UpdateCompiled ==
  /\ call.op = "updateParams"
  /\ call.status = "returned"

-----------------------------------------------------------------------------
(* Claim about options.params, checked under SpecParams *)

\* The entries of the request object that the builder sets itself, or may
\* set, whatever the caller's params hold under their names.
OwnNames(method) ==
  {"TableName"}
    \cup (IF method \in {"getParams", "deleteParams", "updateParams"} THEN {"Key"} ELSE {})
    \cup (IF method = "putParams" THEN {"Item"} ELSE {})
    \cup (IF method = "updateParams" THEN {"UpdateExpression"} ELSE {})
    \cup (IF method \in {"deleteParams", "putParams", "updateParams"}
          THEN {"ConditionExpression"} ELSE {})
    \cup (IF method = "queryParams" THEN {"KeyConditionExpression"} ELSE {})
    \cup (IF method \in {"queryParams", "scanParams"} THEN {"FilterExpression"} ELSE {})
    \cup (IF method # "getParams" THEN {NamesParam, ValuesParam} ELSE {})

\* The params built have the name of the table as TableName and, for get,
\* delete and update, the key argument as Key.
TableNameAndKey ==
  /\ Get(request.params, "TableName") = table.name
  /\ request.op \in {"getParams", "deleteParams", "updateParams"} =>
        Get(request.params, "Key") = request.key

\* C26 as claimed: TableName and Key are the table's name and the key
\* argument, and every other entry of options.params is in the params
\* built, with the caller's value.
C26_OtherEntriesCarried ==
  request.op \in Builders =>
    /\ TableNameAndKey
    /\ \A k \in Keys(request.options.params) \ {"TableName", "Key"} :
          /\ HasKey(request.params, k)
          /\ Get(request.params, k) = Get(request.options.params, k)

\* C26 as amended: TableName and Key are the table's name and the key
\* argument whatever options.params holds; every entry of options.params
\* is in the params built, with the caller's value unless the builder sets
\* an entry of that name itself: Item, an expression it compiles, or the
\* names and values maps when the interner holds any.
C26_EntriesCarriedUnlessSet ==
  request.op \in Builders =>
    /\ TableNameAndKey
    /\ \A k \in Keys(request.options.params) :
          /\ HasKey(request.params, k)
          /\ k \notin OwnNames(request.op) =>
                Get(request.params, k) = Get(request.options.params, k)
    /\ (Len(request.attributes.names) = 0 /\ HasKey(request.options.params, NamesParam)) =>
          Get(request.params, NamesParam) = Get(request.options.params, NamesParam)
    /\ request.op = "putParams" =>
          Get(request.params, "Item") = spread(request.key, request.item)

\* deleteParams has been built from params of the caller that hold another
\* TableName, another Key and an entry of their own.
C26_Witness ==
  /\ request.op = "deleteParams"
  /\ Len(request.options.conditions) > 0
  /\ Keys(request.options.params) = {"TableName", "ReturnValues", "Key"}
  /\ Get(request.options.params, "TableName") # table.name
  /\ Get(request.options.params, "Key") # request.key
  /\ Get(request.params, "TableName") = table.name
  /\ Get(request.params, "Key") = request.key
  /\ Get(request.params, "ReturnValues") = <<"x">>
  /\ HasKey(request.params, "ConditionExpression")

-----------------------------------------------------------------------------
(* Claims about the secondary indexes, checked under SpecIndex *)

\* C25: the options returned by Index.getQueryOptions and
\* Index.getScanOptions have the name of the index as params.IndexName, for
\* every options argument, and hold every other entry of the caller's
\* options and of the caller's params unchanged.
C25_IndexNameSet ==
  request.op \in {"getQueryOptions", "getScanOptions"} =>
    /\ Get(request.returned.params, "IndexName") = topology.indexes[request.index].name
    /\ \A k \in Keys(request.options.params) \ {"IndexName"} :
          /\ HasKey(request.returned.params, k)
          /\ Get(request.returned.params, k) = Get(request.options.params, k)
    /\ request.returned.attributes = request.options.attributes
    /\ request.returned.conditions = request.options.conditions
    /\ request.returned.writeOptions = request.options.writeOptions

\* The tables that list the index i among their global or local indexes.
ListedBy(i) ==
  { t \in 1..Len(topology.tables) :
      i \in Range(topology.tables[t].globalIndexes)
             \cup Range(topology.tables[t].localIndexes) }

\* The table the index i was added to last, 0 when it was never added.
LastAddedTo(i) ==
  LET at == {n \in 1..Len(topology.log) : topology.log[n].index = i}
  IN  IF at = {} THEN 0 ELSE topology.log[CHOOSE n \in at : \A m \in at : m <= n].table

IndexRequest == request.op \in {"Index.queryParams", "Index.scanParams"}

\* An index with no table is listed nowhere and its queryParams and
\* scanParams fail; with a table they return params.
NoTableFails ==
  /\ \A i \in 1..Len(topology.indexes) :
        topology.indexes[i].table = 0 <=> ListedBy(i) = {}
  /\ IndexRequest => (request.error <=> topology.indexes[request.index].table = 0)

\* C30 as claimed: every index a table lists has that table as its table,
\* so that the params of its queryParams and scanParams have the TableName
\* of every table that lists it; an index no table lists has no table and
\* its queryParams and scanParams fail.
C30_ListedIndexHasItsTable ==
  /\ \A i \in 1..Len(topology.indexes) :
        \A t \in ListedBy(i) : topology.indexes[i].table = t
  /\ (IndexRequest /\ ~request.error) =>
        \A t \in ListedBy(request.index) :
          Get(request.params, "TableName") = topology.tables[t].name
  /\ NoTableFails

\* C30 as amended: every index has as its table the table it was added to
\* last, which lists it; an index listed by one table only has that table;
\* the params of its queryParams and scanParams have the TableName of its
\* table and the name of the index as IndexName unless the caller's params
\* hold one; an index no table lists has no table and its queryParams and
\* scanParams fail.
C30_IndexHasLastTable ==
  /\ \A i \in 1..Len(topology.indexes) :
        /\ topology.indexes[i].table = LastAddedTo(i)
        /\ topology.indexes[i].table # 0 => topology.indexes[i].table \in ListedBy(i)
        /\ Cardinality(ListedBy(i)) = 1 => ListedBy(i) = {topology.indexes[i].table}
  /\ (IndexRequest /\ ~request.error) =>
        /\ Get(request.params, "TableName") =
             topology.tables[topology.indexes[request.index].table].name
        /\ ~HasKey(request.options.params, "IndexName") =>
             Get(request.params, "IndexName") = topology.indexes[request.index].name
  /\ NoTableFails

\* An index listed by the first table has been added to the second, and its
\* queryParams have built params for the second.
C30_Witness ==
  /\ request.op = "Index.queryParams"
  /\ ~request.error
  /\ ListedBy(request.index) = {1, 2}
  /\ topology.indexes[request.index].table = 2
  /\ Get(request.params, "TableName") = TableNames[2]

-----------------------------------------------------------------------------
(* Claim about the options argument of putParams, checked under SpecOptions *)

\* The ConditionExpression of the params, empty when the params have none.
ConditionExpressionOf(params) ==
  IF HasKey(params, "ConditionExpression") THEN Get(params, "ConditionExpression")
  ELSE <<>>

\* C29: Table.putParams does not modify its options argument: each call
\* leaves options.conditions (and every other entry of options) as the call
\* found it, so after any number of calls the list has the elements it had
\* before the first, and each call combines the same conditions as the call
\* before it.
C29_OptionsNotModified ==
  [][/\ request'.options = request.options
     /\ request.op = "putParams" =>
          ConditionExpressionOf(request'.params) = ConditionExpressionOf(request.params)]_vars

-----------------------------------------------------------------------------
(* Claims about the interner under any predicates, checked under Spec *)

\* C27: whatever the predicates, and with no reset in between: an alias a
\* that addName returned for the raw name x is mapped to x by the names map
\* in every later state, and two different raw names were never answered
\* with the same alias.
C27_AliasBindingStable ==
  /\ \A c \in nameLog :
        c.alias # c.name =>
          /\ HasKey(ea.names, c.alias)
          /\ Get(ea.names, c.alias) = c.name
  /\ \A c, d \in nameLog : c.alias = d.alias => c.name = d.name

\* C28: with default predicates, in every state: nextName is the number of
\* entries of the names map, whose keys are exactly #n0 .. #n(nextName-1)
\* and whose values are pairwise distinct; nextValue is the number of
\* entries of the values map, whose keys are exactly :v0 ..
\* :v(nextValue-1); addPath left the values map and nextValue as they were,
\* addValue the names map and nextName, and no call but reset lowered a
\* counter.
C28_CountersAndMaps ==
  DefaultPredicates =>
    /\ ea.nextName = Len(ea.names)
    /\ Keys(ea.names) = { <<"#", "n">> \o numberToString(k) : k \in 0..(ea.nextName - 1) }
    /\ \A i, j \in 1..Len(ea.names) : ea.names[i].val = ea.names[j].val => i = j
    /\ ea.nextValue = Len(ea.values)
    /\ Keys(ea.values) = { <<":", "v">> \o numberToString(k) : k \in 0..(ea.nextValue - 1) }
    /\ last.op = "addPath" =>
         /\ ea.values = last.pre.values
         /\ ea.nextValue = last.pre.nextValue
    /\ last.op = "addValue" =>
         /\ ea.names = last.pre.names
         /\ ea.nextName = last.pre.nextName
    /\ last.op # "reset" =>
         /\ ea.nextName >= last.pre.nextName
         /\ ea.nextValue >= last.pre.nextValue

\* Two names and a value interned, then a value added: both maps hold
\* entries and the call changed the values only.
C28_Witness ==
  /\ DefaultPredicates
  /\ last.op = "addValue"
  /\ ea.nextName = 2
  /\ ea.nextValue = 2
  /\ last.pre.nextValue = 1

====
